---- MODULE Spec2Model ----
(***************************************************************************)
(* Query orchestration pipeline of AIQuery: the Safety Validator           *)
(* (agents/validation_agent.py), the result cache (services/cache.py),     *)
(* the rate limiter (services/ai_gateway.py) and the supervisor workflow   *)
(* (agents/supervisor.py, agents/multi_db_supervisor.py, api/routes).      *)
(*                                                                         *)
(* Text is a sequence of one-character strings, so that the regular        *)
(* expressions and string methods of the source act on characters.         *)
(***************************************************************************)
EXTENDS Integers, Sequences, FiniteSets, TLC

(***************************************************************************)
(* Characters and the str methods the source uses                          *)
(***************************************************************************)
\* str.upper() and str.lower(), letter by letter
UpperOf == [a |-> "A", b |-> "B", c |-> "C", d |-> "D", e |-> "E", f |-> "F",
            g |-> "G", h |-> "H", i |-> "I", j |-> "J", k |-> "K", l |-> "L",
            m |-> "M", n |-> "N", o |-> "O", p |-> "P", q |-> "Q", r |-> "R",
            s |-> "S", t |-> "T", u |-> "U", v |-> "V", w |-> "W", x |-> "X",
            y |-> "Y", z |-> "Z"]
LowerOf == [A |-> "a", B |-> "b", C |-> "c", D |-> "d", E |-> "e", F |-> "f",
            G |-> "g", H |-> "h", I |-> "i", J |-> "j", K |-> "k", L |-> "l",
            M |-> "m", N |-> "n", O |-> "o", P |-> "p", Q |-> "q", R |-> "r",
            S |-> "s", T |-> "t", U |-> "u", V |-> "v", W |-> "w", X |-> "x",
            Y |-> "y", Z |-> "z"]
Digits == {"0","1","2","3","4","5","6","7","8","9"}
WS == {" ", "\n", "\t", "\r"}

ToUpper(c) == IF c \in DOMAIN UpperOf THEN UpperOf[c] ELSE c
ToLower(c) == IF c \in DOMAIN LowerOf THEN LowerOf[c] ELSE c

Upper(s) == [i \in 1..Len(s) |-> ToUpper(s[i])]
Lower(s) == [i \in 1..Len(s) |-> ToLower(s[i])]

\* \w of the re module
WordChars == DOMAIN UpperOf \cup DOMAIN LowerOf \cup Digits \cup {"_"}
IsWordChar(c) == c \in WordChars

RECURSIVE LStrip(_)
LStrip(s) == IF s # <<>> /\ Head(s) \in WS THEN LStrip(Tail(s)) ELSE s

RECURSIVE RStrip(_)
RStrip(s) == IF s # <<>> /\ s[Len(s)] \in WS
             THEN RStrip(SubSeq(s, 1, Len(s) - 1)) ELSE s

\* str.strip()
Strip(s) == RStrip(LStrip(s))

\* str.rstrip(c) for a single character c
RECURSIVE RStripChar(_, _)
RStripChar(s, c) == IF s # <<>> /\ s[Len(s)] = c
                    THEN RStripChar(SubSeq(s, 1, Len(s) - 1), c) ELSE s

\* ' '.join(s.split()): whitespace runs become one blank, the ends are trimmed
RECURSIVE Collapse(_)
Collapse(s) == IF s = <<>> THEN <<>>
               ELSE IF Head(s) \in WS THEN <<" ">> \o Collapse(LStrip(s))
               ELSE <<Head(s)>> \o Collapse(Tail(s))

JoinSplit(s) == Collapse(Strip(s))

\* str.startswith
StartsWith(s, p) == Len(s) >= Len(p) /\ SubSeq(s, 1, Len(p)) = p

(***************************************************************************)
(* Regular expressions: a pattern is a sequence of elements, matched with  *)
(* backtracking as re.search does (only the existence of a match is used). *)
(***************************************************************************)
Lit(c)      == [t |-> "lit", c |-> c, n |-> 0]     \* a character, IGNORECASE
WB          == [t |-> "wb",  c |-> "",  n |-> 0]   \* \b
Rep(cls, n) == [t |-> "rep", c |-> cls, n |-> n]   \* cls{n,}
NotAfterLimit == [t |-> "nlb", c |-> "", n |-> 0]  \* (?<!LIMIT\s)

Word(w) == [i \in 1..Len(w) |-> Lit(w[i])]

InClass(c, cls) == CASE cls = "ws"    -> c \in WS
                     [] cls = "digit" -> c \in Digits
                     [] cls = "any"   -> c # "\n"

\* \b at position i (between s[i-1] and s[i])
AtBoundary(s, i) ==
    LET before == i > 1 /\ IsWordChar(s[i - 1])
        after  == i <= Len(s) /\ IsWordChar(s[i])
    IN  before # after

LIMIT_ == <<"L","I","M","I","T">>

LimitWsBefore(s, i) ==
    /\ i > 6
    /\ Upper(SubSeq(s, i - 6, i - 2)) = LIMIT_
    /\ s[i - 1] \in WS

RECURSIVE MatchAt(_, _, _, _)
MatchAt(p, k, s, i) ==
    IF k > Len(p) THEN TRUE
    ELSE LET e == p[k] IN
         CASE e.t = "lit" -> /\ i <= Len(s)
                             /\ ToUpper(s[i]) = ToUpper(e.c)
                             /\ MatchAt(p, k + 1, s, i + 1)
           [] e.t = "wb"  -> AtBoundary(s, i) /\ MatchAt(p, k + 1, s, i)
           [] e.t = "nlb" -> ~LimitWsBefore(s, i) /\ MatchAt(p, k + 1, s, i)
           [] e.t = "rep" -> \E m \in e.n..(Len(s) - i + 1) :
                                /\ \A j \in i..(i + m - 1) : InClass(s[j], e.c)
                                /\ MatchAt(p, k + 1, s, i + m)

\* pattern.search(s)
Search(p, s) == \E i \in 1..(Len(s) + 1) : MatchAt(p, 1, s, i)

(***************************************************************************)
(* ValidationAgent (agents/validation_agent.py)                            *)
(***************************************************************************)
SELECT_   == <<"S","E","L","E","C","T">>
DROP_     == <<"D","R","O","P">>
DELETE_   == <<"D","E","L","E","T","E">>
TRUNCATE_ == <<"T","R","U","N","C","A","T","E">>
ALTER_    == <<"A","L","T","E","R">>
CREATE_   == <<"C","R","E","A","T","E">>
INSERT_   == <<"I","N","S","E","R","T">>
UPDATE_   == <<"U","P","D","A","T","E">>
GRANT_    == <<"G","R","A","N","T">>
REVOKE_   == <<"R","E","V","O","K","E">>
EXEC_     == <<"E","X","E","C">>
EXECUTE_  == <<"E","X","E","C","U","T","E">>
JOIN_     == <<"J","O","I","N">>
GROUP_    == <<"G","R","O","U","P">>
BY_       == <<"B","Y">>
COUNT_    == <<"C","O","U","N","T">>
SUM_      == <<"S","U","M">>
AVG_      == <<"A","V","G">>
MAX_      == <<"M","A","X">>
MIN_      == <<"M","I","N">>

\* r'\bW\b'
WholeWord(w) == <<WB>> \o Word(w) \o <<WB>>

\* ValidationAgent.BLOCKED_PATTERNS, in the order of the source
BLOCKED_PATTERNS == <<
    [src |-> "\\bDROP\\b",     re |-> WholeWord(DROP_)],
    [src |-> "\\bDELETE\\b",   re |-> WholeWord(DELETE_)],
    [src |-> "\\bTRUNCATE\\b", re |-> WholeWord(TRUNCATE_)],
    [src |-> "\\bALTER\\b",    re |-> WholeWord(ALTER_)],
    [src |-> "\\bCREATE\\b",   re |-> WholeWord(CREATE_)],
    [src |-> "\\bINSERT\\b",   re |-> WholeWord(INSERT_)],
    [src |-> "\\bUPDATE\\b",   re |-> WholeWord(UPDATE_)],
    [src |-> "\\bGRANT\\b",    re |-> WholeWord(GRANT_)],
    [src |-> "\\bREVOKE\\b",   re |-> WholeWord(REVOKE_)],
    [src |-> ";\\s*--",        re |-> <<Lit(";"), Rep("ws", 0), Lit("-"), Lit("-")>>],
    [src |-> "\\bEXEC\\b",     re |-> WholeWord(EXEC_)],
    [src |-> "\\bEXECUTE\\b",  re |-> WholeWord(EXECUTE_)] >>

\* ValidationAgent.WARNING_PATTERNS
WARNING_PATTERNS == <<
    [re  |-> Word(SELECT_) \o <<Rep("ws", 1), Lit("*")>>,
     msg |-> "Using SELECT * - consider specifying columns"],
    [re  |-> <<NotAfterLimit, Rep("digit", 4)>>,
     msg |-> "Large number detected - verify if intentional"],
    [re  |-> WholeWord(JOIN_) \o <<Rep("any", 0)>> \o WholeWord(JOIN_)
               \o <<Rep("any", 0)>> \o WholeWord(JOIN_),
     msg |-> "Multiple JOINs detected - may be slow"] >>

\* re.sub(r'--.*$', '', sql, flags=re.MULTILINE)
RECURSIVE SkipToEOL(_)
SkipToEOL(s) == IF s = <<>> \/ Head(s) = "\n" THEN s ELSE SkipToEOL(Tail(s))

RECURSIVE RemoveLineComments(_)
RemoveLineComments(s) ==
    IF s = <<>> THEN <<>>
    ELSE IF Len(s) >= 2 /\ s[1] = "-" /\ s[2] = "-"
         THEN RemoveLineComments(SkipToEOL(s))
         ELSE <<Head(s)>> \o RemoveLineComments(Tail(s))

\* re.sub(r'/\*.*?\*/', '', sql, flags=re.DOTALL)
RECURSIVE RemoveBlockComments(_)
RemoveBlockComments(s) ==
    IF s = <<>> THEN <<>>
    ELSE LET closes == {j \in 3..(Len(s) - 1) : s[j] = "*" /\ s[j + 1] = "/"}
         IN  IF Len(s) >= 2 /\ s[1] = "/" /\ s[2] = "*" /\ closes # {}
             THEN LET j == CHOOSE m \in closes : \A o \in closes : m <= o
                  IN  RemoveBlockComments(SubSeq(s, j + 2, Len(s)))
             ELSE <<Head(s)>> \o RemoveBlockComments(Tail(s))

\* _clean_sql that only removes the comments
_clean_sql_comments_only(sql) == RemoveBlockComments(RemoveLineComments(sql))

\* ValidationAgent._clean_sql
_clean_sql(sql) ==
    LET noLine  == RemoveLineComments(sql)
        noBlock == RemoveBlockComments(noLine)
        joined  == JoinSplit(noBlock)
        noSemi  == RStripChar(joined, ";")
    IN  Strip(noSemi)

\* validate, lines 73-76 with a pattern list that stops before EXEC and EXECUTE,
\* as the list of ExecuteSQLTool does
RECURSIVE BlockedErrorsShortList(_, _)
BlockedErrorsShortList(k, s) ==
    IF k > Len(BLOCKED_PATTERNS) - 2 THEN <<>>
    ELSE (IF Search(BLOCKED_PATTERNS[k].re, s)
          THEN <<"Blocked operation detected: " \o BLOCKED_PATTERNS[k].src>>
          ELSE <<>>) \o BlockedErrorsShortList(k + 1, s)

\* validate, lines 73-76: one message per blocked pattern found, from pattern k on
RECURSIVE BlockedErrors(_, _)
BlockedErrors(k, s) ==
    IF k > Len(BLOCKED_PATTERNS) THEN <<>>
    ELSE (IF Search(BLOCKED_PATTERNS[k].re, s)
          THEN <<"Blocked operation detected: " \o BLOCKED_PATTERNS[k].src>>
          ELSE <<>>) \o BlockedErrors(k + 1, s)

\* validate, lines 83-85 with 'SELECT' in ... instead of startswith
SelectErrorsAnywhere(cleaned_sql) ==
    IF ~Search(Word(SELECT_), cleaned_sql)
    THEN <<"Only SELECT queries are allowed">> ELSE <<>>

\* validate, lines 83-85: must be a SELECT query
SelectErrors(cleaned_sql) ==
    IF ~StartsWith(Upper(Strip(cleaned_sql)), SELECT_)
    THEN <<"Only SELECT queries are allowed">> ELSE <<>>

RECURSIVE PatternWarnings(_, _)
PatternWarnings(k, s) ==
    IF k > Len(WARNING_PATTERNS) THEN <<>>
    ELSE (IF Search(WARNING_PATTERNS[k].re, s)
          THEN <<WARNING_PATTERNS[k].msg>> ELSE <<>>) \o PatternWarnings(k + 1, s)

HasLimit(s) == Search(WholeWord(LIMIT_), s)
HasAggregate(s) ==
    \E w \in {COUNT_, SUM_, AVG_, MAX_, MIN_} :
        Search(<<WB>> \o Word(w) \o <<Rep("ws", 0), Lit("(")>>, s)
HasGroupBy(s) == Search(<<WB>> \o Word(GROUP_) \o <<Rep("ws", 1)>> \o Word(BY_) \o <<WB>>, s)

LIMIT_1000 == <<" ","L","I","M","I","T"," ","1","0","0","0">>

\* ExecuteSQLTool.BLOCKED_PATTERNS (tools/execute_sql.py): the first nine patterns
\* of the validator's list
TOOL_BLOCKED_PATTERNS == SubSeq(BLOCKED_PATTERNS, 1, 9)

\* ExecuteSQLTool._validate_sql: whether the tool accepts the text
ExecuteSQLTool_validate_sql(sql) ==
    LET sql_clean == Strip(sql) IN
    /\ StartsWith(Upper(sql_clean), SELECT_)
    /\ \A k \in 1..Len(TOOL_BLOCKED_PATTERNS) :
          ~Search(TOOL_BLOCKED_PATTERNS[k].re, sql_clean)

\* ValidationAgent._estimate_cost
_estimate_cost(sql) ==
    LET u == Upper(sql)
        J == Word(JOIN_)
        any == <<Rep("any", 0)>>
        high == { Word(SELECT_) \o <<Rep("ws", 1), Lit("*")>> \o any \o J \o any \o J \o any \o J,
                  Word(<<"N","O","T">>) \o <<Rep("ws", 1)>> \o Word(<<"I","N">>)
                      \o <<Rep("ws", 0), Lit("(")>>,
                  Word(<<"L","I","K","E">>) \o <<Rep("ws", 1), Lit("'"), Lit("%")>>,
                  Word(<<"L","I","K","E">>) \o <<Rep("ws", 1), Lit("\""), Lit("%")>> }
        medium == { J,
                    Word(GROUP_) \o <<Rep("ws", 1)>> \o Word(BY_),
                    Word(<<"O","R","D","E","R">>) \o <<Rep("ws", 1)>> \o Word(BY_),
                    Word(<<"D","I","S","T","I","N","C","T">>) }
    IN  IF \E p \in high : Search(p, u) THEN "high"
        ELSE IF \E p \in medium : Search(p, u) THEN "medium"
        ELSE "low"

\* ValidationAgent.validate
validate(sql) ==
    IF sql = <<>> \/ Strip(sql) = <<>>
    THEN [is_valid |-> FALSE, sql |-> <<>>, errors |-> <<"Empty SQL query">>,
          warnings |-> <<>>, estimated_cost |-> "low"]
    ELSE LET cleaned_sql == _clean_sql(sql)
             blocked  == BlockedErrors(1, cleaned_sql)
             warned   == PatternWarnings(1, cleaned_sql)
             errors   == blocked \o SelectErrors(cleaned_sql)
             addLimit == /\ ~HasLimit(cleaned_sql)
                         /\ ~HasAggregate(cleaned_sql)
                         /\ ~HasGroupBy(cleaned_sql)
         IN  [is_valid |-> Len(errors) = 0,
              sql      |-> IF addLimit
                           THEN RStripChar(cleaned_sql, ";") \o LIMIT_1000
                           ELSE cleaned_sql,
              errors   |-> errors,
              warnings |-> warned \o
                           (IF addLimit
                            THEN <<"Added LIMIT 1000 to prevent large result sets">>
                            ELSE <<>>),
              estimated_cost |-> _estimate_cost(cleaned_sql)]

(***************************************************************************)
(* Candidate query texts: concatenations of at most MaxAtoms atoms         *)
(***************************************************************************)
MaxAtoms == 3

Atoms == <<
    SELECT_,
    <<"s","e","l","e","c","t">>,
    <<" ">>,
    <<"x">>,
    <<" ">> \o DROP_,
    <<"e","x","e","c">>,
    <<"-","-">>,
    <<"\n">>,
    <<"/","*">>,
    <<"*","/">>,
    <<";">>,
    <<" ">> \o LIMIT_ \o <<" ","5">>,
    <<" ">> \o COUNT_ \o <<"(">>,
    <<" ">> \o GROUP_ \o <<" ">> \o BY_ >>

RECURSIVE Concat(_)
Concat(ss) == IF ss = <<>> THEN <<>> ELSE Head(ss) \o Concat(Tail(ss))

Inputs == { Concat([i \in 1..Len(ix) |-> Atoms[ix[i]]]) :
              ix \in UNION { [1..n -> 1..Len(Atoms)] : n \in 0..MaxAtoms } }

(***************************************************************************)
(* QueryCache (services/cache.py).  The dict _cache is a sequence of        *)
(* entries in insertion order, the order min() and iteration see.          *)
(***************************************************************************)
CacheMaxSize == 2      \* QueryCache.max_size of the modelled instance
CacheTtl == 2          \* QueryCache.ttl_seconds of the modelled instance
MaxTime == 3           \* the clock time.time() runs from 0 to MaxTime
MaxHits == 2           \* get is followed while hit_count stays within MaxHits

None == [none |-> TRUE]

\* QueryCache._normalize_question
_normalize_question(question) == Strip(Lower(question))

\* QueryCache._hash_key: the md5 prefix is injective on the questions of the
\* model, so the key is the normalized text under a tag
_hash_key(question) == <<"md5", _normalize_question(question)>>

HasKey(c, k) == \E i \in 1..Len(c) : c[i].key = k
EntryOf(c, k) == c[CHOOSE i \in 1..Len(c) : c[i].key = k]
DelKey(c, k) == SelectSeq(c, LAMBDA e : e.key # k)
PutEntry(c, e) ==
    IF HasKey(c, e.key)
    THEN [i \in 1..Len(c) |-> IF c[i].key = e.key THEN e ELSE c[i]]
    ELSE Append(c, e)

\* get, line 58, with the entry's age reset on a hit
HitEntryRefreshed(e, t) == [e EXCEPT !.hit_count = @ + 1, !.created_at = t]

\* get, line 58: entry.hit_count += 1
HitEntry(e, t) == [e EXCEPT !.hit_count = @ + 1]

\* get, line 54: time.time() - entry.created_at > self.ttl_seconds
IsExpired(e, t) == t - e.created_at > CacheTtl

\* QueryCache.get at time t: the cache afterwards and the value returned
QueryCache_get(c, question, t) ==
    LET key == _hash_key(question) IN
    IF HasKey(c, key)
    THEN LET entry == EntryOf(c, key) IN
         IF IsExpired(entry, t)
         THEN [cache |-> DelKey(c, key), ret |-> None]
         ELSE [cache |-> PutEntry(c, HitEntry(entry, t)),
               ret   |-> [sql |-> entry.sql, result |-> entry.result, cached |-> TRUE]]
    ELSE [cache |-> c, ret |-> None]

\* the eviction choice by hit_count instead of created_at
LeastHitKey(c) ==
    c[CHOOSE i \in 1..Len(c) :
        /\ \A j \in 1..Len(c) : c[i].hit_count <= c[j].hit_count
        /\ \A j \in 1..(i - 1) : c[j].hit_count > c[i].hit_count].key

\* min(self._cache.keys(), key=created_at): the first of the oldest entries
OldestKey(c) ==
    c[CHOOSE i \in 1..Len(c) :
        /\ \A j \in 1..Len(c) : c[i].created_at <= c[j].created_at
        /\ \A j \in 1..(i - 1) : c[j].created_at > c[i].created_at].key

\* set, lines 70-73: the eviction loop
RECURSIVE EvictWhileFull(_)
EvictWhileFull(c) ==
    IF Len(c) >= CacheMaxSize THEN EvictWhileFull(DelKey(c, OldestKey(c))) ELSE c

\* QueryCache.set at time t
QueryCache_set(c, question, sql, result, t) ==
    PutEntry(EvictWhileFull(c),
             [key |-> _hash_key(question), question |-> question, sql |-> sql,
              result |-> result, created_at |-> t, hit_count |-> 0])

\* QueryCache.invalidate
QueryCache_invalidate(c, question) ==
    IF HasKey(c, _hash_key(question)) THEN DelKey(c, _hash_key(question)) ELSE c

\* QueryCache.clear
QueryCache_clear(c) == <<>>

\* the questions, query texts and result payloads handed to the cache
Questions == { <<"q">>, <<"Q", " ">>, <<"r">> }
SetArgs == { <<"sql1", "rows1">>, <<"sql2", "rows2">> }

(***************************************************************************)
(* RateLimiter (services/ai_gateway.py).  The dicts _minute_tokens and      *)
(* _hour_tokens are functions from the users seen so far to their lists.   *)
(***************************************************************************)
RatePerMinute == 3     \* RateLimiter.rate_per_minute of the modelled instance
RatePerHour == 4       \* RateLimiter.rate_per_hour of the modelled instance
MinuteWindow == 60
HourWindow == 3600
MaxTicks == 2          \* the clock advances at most MaxTicks times
MaxConsumes == 4       \* a user is followed for at most MaxConsumes consume calls

Users == {"alice", "bob"}
NoUser == ""

\* the clock advances by one of these steps: just inside a window, and just past it
ClockSteps == {1, MinuteWindow - 1, HourWindow - MinuteWindow}

\* dict.get(user_id, [])
TokensOf(d, u) == IF u \in DOMAIN d THEN d[u] ELSE <<>>

\* d[user_id] = v
DictSet(d, u, v) == [x \in DOMAIN d \cup {u} |-> IF x = u THEN v ELSE d[x]]

\* RateLimiter._clean_old_tokens
_clean_old_tokens(tokens, window, t) == SelectSeq(tokens, LAMBDA x : t - x < window)

\* check, lines 81-84 with > for >=
AtLimitOffByOne(tokens, limit) == Len(tokens) > limit

\* check, lines 81-84: len(tokens) >= limit
AtLimit(tokens, limit) == Len(tokens) >= limit

\* RateLimiter.check at time t: the two dicts afterwards and the value returned
RateLimiter_check(minute, hour, u, t) ==
    LET m == _clean_old_tokens(TokensOf(minute, u), MinuteWindow, t)
        h == _clean_old_tokens(TokensOf(hour, u), HourWindow, t)
    IN  [minute |-> DictSet(minute, u, m),
         hour   |-> DictSet(hour, u, h),
         ret    |-> IF AtLimit(m, RatePerMinute) THEN FALSE
                    ELSE IF AtLimit(h, RatePerHour) THEN FALSE
                    ELSE TRUE]

\* consume with its first append (line 94) left out
RateLimiter_consume_hour_only(minute, hour, u, t) ==
    [minute |-> minute,
     hour   |-> DictSet(hour, u, Append(TokensOf(hour, u), t))]

\* RateLimiter.consume at time t
RateLimiter_consume(minute, hour, u, t) ==
    [minute |-> DictSet(minute, u, Append(TokensOf(minute, u), t)),
     hour   |-> DictSet(hour, u, Append(TokensOf(hour, u), t))]

(***************************************************************************)
(* SupervisorAgent (agents/supervisor.py) with the agents its nodes call.  *)
(* Optional values are records: None, or a record of the value's fields;   *)
(* a dict is the record of its set of keys.                                *)
(***************************************************************************)
MaxRuns == 2           \* process_query is followed for MaxRuns calls
Runs == 1..MaxRuns
MemMaxTurns == 3       \* ConversationMemory.max_turns of the modelled instance

\* str(...) values and bool(...) of an Optional[str]
Str(m) == [str |-> m]
Truthy(e) == e # None /\ e.str # ""

\* a dict with the given keys; bool(d); d[k] = ...; d.pop(k)
Dict(keys) == [keys |-> keys]
DictTruthy(d) == d # None /\ d.keys # {}
DictWith(d, k) == [keys |-> d.keys \cup {k}]
DictPop(d, k) == [keys |-> d.keys \ {k}]

\* w in s, for strings
Contains(s, w) ==
    \E i \in 1..(Len(s) - Len(w) + 1) : SubSeq(s, i, i + Len(w) - 1) = w

\* any(w in s for w in words)
AnyIn(words, s) == \E k \in 1..Len(words) : Contains(s, words[k])

\* the questions submitted to process_query
SQuestions == { <<"q">>, <<"Q"," ">>, <<"w","h","y">> }

\* user_id and session_id as routes/query.py passes them (the defaults)
DefaultUser == "default"

\* texts the language model may hand back as a query
SELECT_CUSTOMERS == <<"S","E","L","E","C","T"," ","*"," ","F","R","O","M"," ","c","u","s","t","o","m","e","r","s">>
DROP_CUSTOMERS == <<"D","R","O","P"," ","T","A","B","L","E"," ","c","u","s","t","o","m","e","r","s">>
\* SQLWriterAgent.generate_sql, except branch: the report it returns as sql,
\* cut after its first line
ERROR_REPORT == <<"/","*","\n","E","R","R","O","R"," ","G","E","N","E","R","A","T","I","N","G"," ","S","Q","L",":","\n","*","/">>
LlmSqls == { SELECT_CUSTOMERS, DROP_CUSTOMERS }

\* what SQLWriterAgent.generate_sql may return as sql: the model's text, which may
\* be empty, or the error report
WriterSqls == LlmSqls \cup { <<>>, ERROR_REPORT }

\* DatabaseConnector.execute: the dict it returns
QUERY_RESULT == Dict({"columns", "rows", "row_count"})

(***************************************************************************)
(* InsightAgent (agents/insight_agent.py).  The word lists keep the ASCII   *)
(* entries; the query literals keep their line structure with the column   *)
(* lists and conditions shortened.                                         *)
(***************************************************************************)
variance_words == << <<"w","h","y">>,
       <<"d","r","o","p">>,
       <<"i","n","c","r","e","a","s","e">>,
       <<"c","h","a","n","g","e">>,
       <<"d","i","f","f","e","r">> >>
trend_words == << <<"t","r","e","n","d">>,
       <<"o","v","e","r"," ","t","i","m","e">>,
       <<"g","r","o","w","t","h">> >>
anomaly_words == << <<"u","n","u","s","u","a","l">>,
       <<"a","n","o","m","a","l","y">>,
       <<"o","u","t","l","i","e","r">>,
       <<"s","t","r","a","n","g","e">> >>
comparison_words == << <<"c","o","m","p","a","r","e">>,
       <<"v","s">>,
       <<"v","e","r","s","u","s">>,
       <<"d","i","f","f","e","r","e","n","c","e">>,
       <<"b","e","t","w","e","e","n">> >>

_detect_insight_type(question) ==
    LET question_lower == Lower(question) IN
    IF AnyIn(variance_words, question_lower) THEN "variance"
    ELSE IF AnyIn(trend_words, question_lower) THEN "trend"
    ELSE IF AnyIn(anomaly_words, question_lower) THEN "anomaly"
    ELSE IF AnyIn(comparison_words, question_lower) THEN "comparison"
    ELSE "summary"

\* _variance_analysis, lines 107-140
VARIANCE_QUERIES == <<
    <<"\n"," ","S","E","L","E","C","T"," ","S","U","M","(","a",")"," ","F","R","O","M"," ","o","r","d","e","r","s","\n"," ","W","H","E","R","E"," ","d"," ",">","="," ","1","\n"," ">>,
    <<"\n"," ","S","E","L","E","C","T"," ","S","U","M","(","a",")"," ","F","R","O","M"," ","o","r","d","e","r","s","\n"," ","W","H","E","R","E"," ","d"," ","<"," ","1","\n"," ">>,
    <<"\n"," ","S","E","L","E","C","T"," ","S","U","M","(","a",")"," ","F","R","O","M"," ","o","r","d","e","r","s"," ","o","\n"," ","G","R","O","U","P"," ","B","Y"," ","c","\n"," ","L","I","M","I","T"," ","5","\n"," ">> >>

\* _trend_analysis, lines 167-179
TREND_QUERIES == << <<"\n"," ","S","E","L","E","C","T"," ","m",","," ","S","U","M","(","a",")"," ","F","R","O","M"," ","o","r","d","e","r","s","\n"," ","G","R","O","U","P"," ","B","Y"," ","m","\n"," ">> >>

\* _comparison_analysis, lines 192-204
COMPARISON_QUERIES == << <<"\n"," ","S","E","L","E","C","T"," ","c",","," ","C","O","U","N","T","(","*",")"," ","F","R","O","M"," ","o","r","d","e","r","s"," ","o","\n"," ","G","R","O","U","P"," ","B","Y"," ","c","\n"," ">> >>

\* what a parsed language-model answer may carry under "sql_queries"
LlmQueryLists == {<<>>} \cup {<<s>> : s \in LlmSqls}

\* _llm_insight: the parsed answer, or on failure the dict with the queries passed in
_llm_insight(sql_queries) == LlmQueryLists \cup {sql_queries}

\* InsightAgent.generate_insight with a language model configured: the possible
\* outcomes, each the texts sent to db_connector.execute and the sql_queries of
\* the dict returned
generate_insight(question, has_connector) ==
    LET insight_type == _detect_insight_type(question) IN
    IF insight_type = "variance"
    THEN { [executed |-> IF has_connector THEN VARIANCE_QUERIES ELSE <<>>,
            sql_queries |-> qs] : qs \in _llm_insight(VARIANCE_QUERIES) }
    ELSE IF insight_type = "trend"
    THEN { [executed |-> <<>>, sql_queries |-> TREND_QUERIES] }
    ELSE IF insight_type = "comparison"
    THEN { [executed |-> <<>>, sql_queries |-> COMPARISON_QUERIES] }
    ELSE { [executed |-> <<>>, sql_queries |-> qs] : qs \in _llm_insight(<<>>) }

(***************************************************************************)
(* ReportAgent (agents/report_agent.py).  The keyword lists keep the ASCII  *)
(* entries; the templates are shortened to one line each.                  *)
(***************************************************************************)
report_keywords == <<
    [key |-> "sales_summary",
     kws |-> <<<<"s","a","l","e","s">>, <<"r","e","v","e","n","u","e"," ","s","u","m","m","a","r","y">>>>],
    [key |-> "customer_report",
     kws |-> <<<<"c","u","s","t","o","m","e","r">>, <<"c","l","i","e","n","t">>>>],
    [key |-> "product_performance",
     kws |-> <<<<"p","r","o","d","u","c","t">>, <<"t","o","p"," ","p","r","o","d","u","c","t">>, <<"b","e","s","t"," ","s","e","l","l","i","n","g">>>>],
    [key |-> "inventory_status",
     kws |-> <<<<"i","n","v","e","n","t","o","r","y">>, <<"s","t","o","c","k">>>>],
    [key |-> "revenue_by_region",
     kws |-> <<<<"r","e","g","i","o","n">>, <<"c","i","t","y">>>>] >>

\* _generate_from_template: the template with its parameters filled in, stripped
TEMPLATES == [
    sales_summary       |-> <<"S","E","L","E","C","T"," ","p",","," ","C","O","U","N","T","(","*",")"," ","F","R","O","M"," ","o","r","d","e","r","s"," ","G","R","O","U","P"," ","B","Y"," ","p">>,
    customer_report     |-> <<"S","E","L","E","C","T"," ","c",".","i","d",","," ","C","O","U","N","T","(","o",".","i","d",")"," ","F","R","O","M"," ","c","u","s","t","o","m","e","r","s"," ","c"," ","G","R","O","U","P"," ","B","Y"," ","c",".","i","d"," ","L","I","M","I","T"," ","2","0">>,
    product_performance |-> <<"S","E","L","E","C","T"," ","p",".","n","a","m","e",","," ","S","U","M","(","q",")"," ","F","R","O","M"," ","p","r","o","d","u","c","t","s"," ","p"," ","G","R","O","U","P"," ","B","Y"," ","p",".","i","d"," ","L","I","M","I","T"," ","2","0">>,
    inventory_status    |-> <<"S","E","L","E","C","T"," ","p",".","n","a","m","e"," ","F","R","O","M"," ","p","r","o","d","u","c","t","s"," ","p"," ","O","R","D","E","R"," ","B","Y"," ","s">>,
    revenue_by_region   |-> <<"S","E","L","E","C","T"," ","c",".","c","i","t","y",","," ","C","O","U","N","T","(","o",".","i","d",")"," ","F","R","O","M"," ","c","u","s","t","o","m","e","r","s"," ","c"," ","G","R","O","U","P"," ","B","Y"," ","c",".","c","i","t","y">> ]

\* ReportAgent._match_template: the key of the first template one of whose
\* keywords occurs in the request, or "" for None
RECURSIVE MatchFrom(_, _)
MatchFrom(k, request_lower) ==
    IF k > Len(report_keywords) THEN ""
    ELSE IF AnyIn(report_keywords[k].kws, request_lower) THEN report_keywords[k].key
    ELSE MatchFrom(k + 1, request_lower)

_match_template(request) == MatchFrom(1, Lower(request))

\* ReportAgent.generate_report with a language model configured: the possible
\* dicts, as the sql_queries they carry and their "error" entry (None if absent)
generate_report(request) ==
    IF _match_template(request) # ""
    THEN { [sql_queries |-> <<TEMPLATES[_match_template(request)]>>, error |-> None] }
    ELSE { [sql_queries |-> qs, error |-> None] : qs \in LlmQueryLists }
         \cup { [sql_queries |-> <<>>, error |-> Str(m)] : m \in {"", "backend failed"} }

(***************************************************************************)
(* IntentAgent.analyze (agents/intent_agent.py): the answer of the model or *)
(* of the rule-based fallback; it raises nothing                           *)
(***************************************************************************)
IntentTypes == {"data_retrieval", "report_generation", "insight_generation",
                "knowledge_base"}

\* IntentResult.intent_type: the values the Literal admits
IntentEnumeration == {"data_retrieval", "report_generation", "insight_generation",
                      "query_assistance", "allocation_explainability",
                      "knowledge_base", "unknown"}

\* _fallback_analysis: the keyword lists, the entries written in ASCII
report_kws == <<<<"r","e","p","o","r","t">>, <<"p","&","l">>, <<"s","u","m","m","a","r","y">>>>
insight_kws == <<<<"w","h","y">>, <<"v","a","r","i","a","n","c","e">>, <<"t","r","e","n","d">>>>
help_kws == <<<<"h","o","w"," ","t","o">>, <<"h","e","l","p">>>>
policy_kws == <<<<"p","o","l","i","c","y">>, <<"r","u","l","e">>>>
aggregate_kws == <<<<"t","o","t","a","l">>, <<"s","u","m">>, <<"c","o","u","n","t">>, <<"a","v","e","r","a","g","e">>>>
compare_kws == <<<<"c","o","m","p","a","r","e">>, <<"v","s">>, <<"v","e","r","s","u","s">>>>
trend_kws == <<<<"t","r","e","n","d">>, <<"o","v","e","r"," ","t","i","m","e">>, <<"b","y"," ","m","o","n","t","h">>>>

\* an IntentResult: confidence is kept in tenths
IntentResultOf(intent_type, query_type, tenths) ==
    [intent_type |-> intent_type, query_type |-> query_type, confidence |-> tenths]

\* IntentAgent._fallback_analysis
_fallback_analysis(question) ==
    LET question_lower == Lower(question) IN
    IF AnyIn(report_kws, question_lower)
    THEN IntentResultOf("report_generation", "", 6)
    ELSE IF AnyIn(insight_kws, question_lower)
    THEN IntentResultOf("insight_generation", "", 6)
    ELSE IF AnyIn(help_kws, question_lower)
    THEN IntentResultOf("query_assistance", "", 6)
    ELSE IF AnyIn(policy_kws, question_lower)
    THEN IntentResultOf("knowledge_base", "", 6)
    ELSE IntentResultOf("data_retrieval",
            IF AnyIn(aggregate_kws, question_lower) THEN "aggregate"
            ELSE IF AnyIn(compare_kws, question_lower) THEN "compare"
            ELSE IF AnyIn(trend_kws, question_lower) THEN "trend"
            ELSE "select", 7)

\* what the chain prompt | llm | parser does: it hands back a parsed IntentResult,
\* or it raises, because the backend failed or the parser rejected its output
BackendOutcomes ==
    { [kind |-> "parsed", result |-> IntentResultOf(t, "", c)] :
          t \in IntentEnumeration, c \in {0, 9} }
    \cup { [kind |-> "failed"], [kind |-> "malformed"] }

\* analyze with the except branch left out: the exception leaves analyze
analyze_without_fallback(question, backend) ==
    IF backend.kind = "parsed" THEN [raised |-> FALSE, result |-> backend.result]
    ELSE [raised |-> TRUE, result |-> None]

\* IntentAgent.analyze: whether it raises, and the IntentResult it returns
analyze(question, backend) ==
    IF backend.kind = "parsed" THEN [raised |-> FALSE, result |-> backend.result]
    ELSE [raised |-> FALSE, result |-> _fallback_analysis(question)]

(***************************************************************************)
(* ConversationMemory (services/memory.py): per session id the deque of    *)
(* messages and the ConversationContext derived from them.  Of the word    *)
(* lists of _extract_context the entries written in ASCII are kept.        *)
(***************************************************************************)
_get_session_id(user_id, session_id) ==
    IF session_id # "" THEN user_id \o ":" \o session_id ELSE user_id

\* _extract_context: business_terms, time_patterns and the aggregation words
business_terms == << [term |-> "revenue",  text |-> <<"r","e","v","e","n","u","e">>],
                     [term |-> "sales",    text |-> <<"s","a","l","e","s">>],
                     [term |-> "customer", text |-> <<"c","u","s","t","o","m","e","r">>],
                     [term |-> "order",    text |-> <<"o","r","d","e","r">>],
                     [term |-> "product",  text |-> <<"p","r","o","d","u","c","t">>],
                     [term |-> "category", text |-> <<"c","a","t","e","g","o","r","y">>] >>
time_patterns == << [pattern |-> <<"l","a","s","t"," ","m","o","n","t","h">>, value |-> "last_month"],
                    [pattern |-> <<"t","h","i","s"," ","y","e","a","r">>, value |-> "this_year"],
                    [pattern |-> <<"l","a","s","t"," ","y","e","a","r">>, value |-> "last_year"],
                    [pattern |-> <<"t","o","d","a","y">>, value |-> "today"] >>
aggregation_words == << [agg |-> "sum",   words |-> <<<<"t","o","t","a","l">>, <<"s","u","m">>>>],
                        [agg |-> "count", words |-> <<<<"c","o","u","n","t">>, <<"h","o","w"," ","m","a","n","y">>>>],
                        [agg |-> "avg",   words |-> <<<<"a","v","e","r","a","g","e">>, <<"a","v","g">>>>] >>

\* a session with its context before the first message
NoSession == [messages |-> <<>>, entities |-> <<>>, time_range |-> None,
              aggregations |-> <<>>, last_sql |-> None]
SessionOf(mem, sid) == IF sid \in DOMAIN mem THEN mem[sid] ELSE NoSession

\* x in l, for lists
InList(x, l) == \E i \in 1..Len(l) : l[i] = x

\* lines 123-125: each term found in the text is appended unless already listed
RECURSIVE ExtractEntities(_, _, _)
ExtractEntities(entities, content_lower, k) ==
    IF k > Len(business_terms) THEN entities
    ELSE ExtractEntities(
            IF Contains(content_lower, business_terms[k].text)
               /\ ~InList(business_terms[k].term, entities)
            THEN Append(entities, business_terms[k].term) ELSE entities,
            content_lower, k + 1)

\* lines 138-140: every pattern found overwrites time_range, in dict order
RECURSIVE ExtractTimeRange(_, _, _)
ExtractTimeRange(time_range, content_lower, k) ==
    IF k > Len(time_patterns) THEN time_range
    ELSE ExtractTimeRange(
            IF Contains(content_lower, time_patterns[k].pattern)
            THEN Str(time_patterns[k].value) ELSE time_range,
            content_lower, k + 1)

\* lines 143-151
RECURSIVE ExtractAggregations(_, _, _)
ExtractAggregations(aggregations, content_lower, k) ==
    IF k > Len(aggregation_words) THEN aggregations
    ELSE ExtractAggregations(
            IF AnyIn(aggregation_words[k].words, content_lower)
               /\ ~InList(aggregation_words[k].agg, aggregations)
            THEN Append(aggregations, aggregation_words[k].agg) ELSE aggregations,
            content_lower, k + 1)

\* ConversationMemory._extract_context on the context ctx of a session
_extract_context(ctx, content) ==
    [ctx EXCEPT !.entities = ExtractEntities(@, Lower(content), 1),
                !.time_range = ExtractTimeRange(@, Lower(content), 1),
                !.aggregations = ExtractAggregations(@, Lower(content), 1)]

\* append on a deque without maxlen
DequeAppendUnbounded(q, m) == Append(q, m)

\* deque(maxlen=max_turns).append
DequeAppend(q, m) ==
    IF Len(q) >= MemMaxTurns THEN Append(Tail(q), m) ELSE Append(q, m)

\* ConversationMemory.add_message; the content of a user message is its text,
\* metadata is None or carries "sql"
add_message(mem, user_id, role, content, session_id, metadata) ==
    LET sid == _get_session_id(user_id, session_id)
        old == SessionOf(mem, sid)
        app == [old EXCEPT !.messages = DequeAppend(@, [role |-> role,
                                                        content |-> content])]
    IN  DictSet(mem, sid,
            IF role = "user" THEN _extract_context(app, content.text)
            ELSE IF role = "assistant" /\ metadata # None
            THEN [app EXCEPT !.last_sql = metadata]
            ELSE app)

\* the last n elements of a list
LastN(q, n) == IF Len(q) <= n THEN q ELSE SubSeq(q, Len(q) - n + 1, Len(q))

\* ConversationMemory.get_context_for_prompt: what the text is built from
get_context_for_prompt(mem, user_id, session_id) ==
    LET s == SessionOf(mem, _get_session_id(user_id, session_id))
    IN  [entities |-> s.entities, time_range |-> s.time_range,
         aggregations |-> s.aggregations, last_sql |-> s.last_sql,
         recent |-> LastN(LastN(s.messages, 5), 3)]

(***************************************************************************)
(* Responses: SupervisorAgent.process_query, the wrapper                   *)
(* MultiDatabaseSupervisor.process_query and the /query route              *)
(***************************************************************************)
\* an Optional[list] that is set
List(l) == [list |-> l]

\* process_query, lines 464-489
BuildResponse(st) ==
    IF Truthy(st.error)
    THEN [success |-> FALSE, question |-> st.question,
          sql |-> IF st.sql_result # None THEN st.sql_result.sql ELSE <<>>,
          explanation |-> "", data |-> None, intent_type |-> "data_retrieval",
          visualization |-> None, error |-> st.error, warnings |-> None,
          cached |-> FALSE]
    ELSE [success |-> TRUE, question |-> st.question,
          sql |-> IF st.validation # None THEN st.validation.sql ELSE <<>>,
          explanation |-> IF st.sql_result # None THEN st.sql_result.explanation ELSE "",
          data |-> st.query_result,
          intent_type |-> IF st.intent # None THEN st.intent.intent_type
                          ELSE "data_retrieval",
          visualization |-> st.visualization, error |-> None,
          warnings |-> IF st.validation # None THEN List(st.validation.warnings)
                       ELSE List(<<>>),
          cached |-> FALSE]

\* MultiDatabaseSupervisor.process_query, lines 213-221
NoDatabaseResponse(question) ==
    [success |-> FALSE, question |-> question, sql |-> <<>>, explanation |-> "",
     data |-> None, intent_type |-> "data_retrieval", visualization |-> None,
     error |-> Str("No database available for this query"), warnings |-> None,
     cached |-> FALSE]

\* MultiDatabaseSupervisor.process_query, lines 241-249
AddDatabaseInfo(result) ==
    [result EXCEPT !.data =
        DictWith(IF DictTruthy(result.data) THEN result.data ELSE Dict({}),
                 "_database")]

\* routes/query.py process_query, lines 109-130: the response model it returns
RouteResponse(result, via_agent) ==
    LET pops == via_agent /\ result.data # None /\ "_database" \in result.data.keys
        data == IF pops THEN DictPop(result.data, "_database") ELSE result.data
    IN  [success |-> result.success, question |-> result.question,
         sql |-> result.sql, explanation |-> result.explanation,
         data |-> data, error |-> result.error,
         warnings |-> IF result.warnings = None THEN <<>> ELSE result.warnings.list,
         database_used |-> IF pops THEN Dict({"id", "name", "type"}) ELSE None]

\* _route_after_cache
_route_after_cache(st) ==
    IF DictTruthy(st.query_result) THEN "END" ELSE "load_memory"

\* _route_after_intent
_route_after_intent(st) ==
    IF Truthy(st.error) THEN "handle_error"
    ELSE IF st.intent = None THEN "handle_error"
    ELSE IF st.intent.intent_type \in {"data_retrieval", "query_assistance"}
    THEN "generate_sql"
    ELSE IF st.intent.intent_type = "report_generation" THEN "generate_report"
    ELSE IF st.intent.intent_type = "insight_generation" THEN "generate_insight"
    ELSE "generate_sql"

\* _route_after_validation
_route_after_validation(st) ==
    IF st.validation = None \/ ~st.validation.is_valid THEN "handle_error"
    ELSE "execute_query"

\* "; ".join(errors)
RECURSIVE JoinErrors(_)
JoinErrors(errors) ==
    IF Len(errors) = 0 THEN ""
    ELSE IF Len(errors) = 1 THEN errors[1]
    ELSE errors[1] \o "; " \o JoinErrors(Tail(errors))

\* a run before its call: the AgentState fields, the node about to run and what
\* the run has done so far
IdleRun ==
    [node |-> "idle", question |-> <<>>,
     intent |-> None, sql_result |-> None, validation |-> None,
     query_result |-> None, visualization |-> None, error |-> None,
     conversation_context |-> None, intent_input |-> None,
     executed |-> <<>>, generated |-> FALSE, validated |-> FALSE, hit |-> FALSE,
     wrote |-> FALSE, succeeded |-> FALSE,
     response |-> None, wrapped |-> None, served |-> None]

(***************************************************************************)
(* AIGateway with its ResponseCache (services/ai_gateway.py).  The dict     *)
(* _cache is a function from the keys stored to (response, timestamp).     *)
(***************************************************************************)
max_retries == 3             \* GatewayConfig.max_retries
retry_delay_seconds == 1     \* GatewayConfig.retry_delay_seconds
cache_ttl_seconds == 3600    \* GatewayConfig.cache_ttl_seconds
ResponseMaxSize == 2         \* ResponseCache.max_size of the modelled instance
MaxInvokes == 4              \* invoke is followed for MaxInvokes calls

primary_provider == "openai"
primary_model == "gpt-4"
fallback_provider == Str("openai")
fallback_model == "gpt-3.5-turbo"
cache_enabled == TRUE
GatewayUser == "alice"

Prompts == {"p1", "p2", "p3"}
Slots == 1..2

\* what one call of llm.ainvoke does: a response, or an exception and its str()
LlmOutcomes == { [ok |-> TRUE, text |-> "answer"],
                 [ok |-> FALSE, text |-> ""],
                 [ok |-> FALSE, text |-> "boom"] }

\* ResponseCache._hash_key: the sha256 prefix is injective on the prompts of the
\* model, so the key is the hashed text under a tag
ResponseCache_hash_key(prompt, model) == <<"sha256", model, prompt>>

DictDel(d, k) == [x \in DOMAIN d \ {k} |-> d[x]]

\* list.remove(key): the first occurrence
RECURSIVE RemoveFirst(_, _)
RemoveFirst(l, k) ==
    IF l = <<>> THEN <<>>
    ELSE IF Head(l) = k THEN Tail(l)
    ELSE <<Head(l)>> \o RemoveFirst(Tail(l), k)

\* get with every occurrence of the key taken out of _access_order
RemoveAll(l, k) == SelectSeq(l, LAMBDA x : x # k)

\* ResponseCache.get at time t
ResponseCache_get(cache, order, prompt, model, t) ==
    LET key == ResponseCache_hash_key(prompt, model) IN
    IF key \in DOMAIN cache
    THEN IF t - cache[key].timestamp < cache_ttl_seconds
         THEN [cache |-> cache,
               order |-> Append(IF InList(key, order) THEN RemoveFirst(order, key)
                                ELSE order, key),
               ret   |-> Str(cache[key].response)]
         ELSE [cache |-> DictDel(cache, key),
               order |-> IF InList(key, order) THEN RemoveFirst(order, key) ELSE order,
               ret   |-> None]
    ELSE [cache |-> cache, order |-> order, ret |-> None]

\* set, lines 137-140: the eviction loop
RECURSIVE EvictAtCapacity(_, _)
EvictAtCapacity(cache, order) ==
    IF Cardinality(DOMAIN cache) >= ResponseMaxSize /\ order # <<>>
    THEN EvictAtCapacity(IF Head(order) \in DOMAIN cache
                         THEN DictDel(cache, Head(order)) ELSE cache,
                         Tail(order))
    ELSE [cache |-> cache, order |-> order]

\* ResponseCache.set at time t
ResponseCache_set(cache, order, prompt, model, response, t) ==
    LET key == ResponseCache_hash_key(prompt, model)
        e   == EvictAtCapacity(cache, order)
    IN  [cache |-> DictSet(e.cache, key, [response |-> response, timestamp |-> t]),
         order |-> Append(e.order, key)]

RECURSIVE Pow2(_)
Pow2(n) == IF n = 0 THEN 1 ELSE 2 * Pow2(n - 1)

\* _invoke_with_retry, lines 338-340: the sleep after failed attempt number attempt
BackoffSeconds(attempt) == retry_delay_seconds * Pow2(attempt)

\* the dicts invoke returns
RateLimitedResult ==
    [kind |-> "rate_limited", content |-> Str(""),
     error |-> Str("Rate limit exceeded. Please try again later."), provider |-> ""]
CachedResult(response) ==
    [kind |-> "cached", content |-> response, error |-> None,
     provider |-> "primary"]
ContentResult(text, which) ==
    [kind |-> "content", content |-> Str(text), error |-> None, provider |-> which]
ErrorResult(last_error, which) ==
    [kind |-> "error", content |-> None, error |-> last_error, provider |-> which]

\* one call of invoke: where it stands, its arguments, the loop variable of
\* _invoke_with_retry, and what it has done so far
NoInvocation ==
    [pc |-> "idle", prompt |-> "", use_cache |-> FALSE, attempt |-> 0,
     calls |-> [primary |-> 0, fallback |-> 0],
     failed |-> [primary |-> 0, fallback |-> 0],
     waits |-> <<>>, result |-> None]

(***************************************************************************)
(* MultiDatabaseSupervisor (agents/multi_db_supervisor.py): one supervisor  *)
(* per database, all of them on the QueryCache that get_cache() returns.   *)
(***************************************************************************)
MaxRequests == 4       \* process_query is followed for MaxRequests calls

\* self.connectors, and the ids a caller may pass
Databases == {"sales", "hr"}
DatabaseIds == Databases \cup {"gone"}

\* what the pipeline between load_memory and the end of record_feedback does in
\* one run: rows from the connector, an error in the state, or an exception of
\* record_query
PipelineOutcomes == {"rows", "error", "raised"}

\* what connector.execute of a database returns: the rows of that database
RowsOf(db) == [keys |-> {"columns", "rows", "row_count"}, origin |-> db]

SQL_TEXT == <<"S","E","L","E","C","T"," ","1">>

NoResponse == [success |-> FALSE, data |-> None, error |-> None,
               database |-> None, raised |-> FALSE]

\* MultiDatabaseSupervisor.process_query with database_id = db at time t: the
\* cache afterwards and the QueryResponse, with the id it puts under "_database"
ProcessOnDatabase(c, question, db, outcome, t) ==
    LET got == QueryCache_get(c, question, t) IN
    IF db \notin Databases
    THEN [cache |-> c,
          response |-> [NoResponse EXCEPT
                          !.error = Str("No database available for this query")]]
    ELSE IF got.ret # None /\ DictTruthy(got.ret.result)
    THEN [cache |-> got.cache,
          response |-> [NoResponse EXCEPT !.success = TRUE,
                                          !.data = got.ret.result,
                                          !.database = Str(db)]]
    ELSE IF outcome = "rows"
    THEN [cache |-> QueryCache_set(got.cache, question, SQL_TEXT, RowsOf(db), t),
          response |-> [NoResponse EXCEPT !.success = TRUE,
                                          !.data = RowsOf(db),
                                          !.database = Str(db)]]
    ELSE IF outcome = "error"
    THEN [cache |-> got.cache,
          response |-> [NoResponse EXCEPT !.error = Str("error"),
                                          !.database = Str(db)]]
    ELSE [cache |-> got.cache,
          response |-> [NoResponse EXCEPT !.raised = TRUE]]

(***************************************************************************)
(* FeedbackService (services/feedback.py)                                  *)
(***************************************************************************)
MaxRecords == 2        \* _records is followed up to MaxRecords records

FQuestions == { <<"Q">>, <<"q">>, <<"r">> }
FSqls == {"sql1", "sql2"}

\* a FeedbackRecord; rating 0 stands for None
NoRecord == [question |-> <<>>, original_sql |-> "", corrected_sql |-> None,
             user_id |-> "", rating |-> 0]

ReturnedTrue == [bool |-> TRUE]
Raised == [raised |-> TRUE]

\* the index of the last record of the question and user, or 0
LastMatch(records, question, user_id) ==
    IF \E i \in 1..Len(records) :
           records[i].question = question /\ records[i].user_id = user_id
    THEN CHOOSE i \in 1..Len(records) :
           /\ records[i].question = question /\ records[i].user_id = user_id
           /\ \A j \in (i + 1)..Len(records) :
                 ~(records[j].question = question /\ records[j].user_id = user_id)
    ELSE 0

\* FeedbackService.add_correction when _save_to_disk succeeds: _records and
\* _corrections_cache afterwards; the call returns True
add_correction(records, cache, question, corrected_sql, user_id) ==
    LET i == LastMatch(records, question, user_id) IN
    IF i > 0
    THEN [records |-> [records EXCEPT ![i].corrected_sql = Str(corrected_sql)],
          cache   |-> DictSet(cache, Lower(question), corrected_sql)]
    ELSE [records |-> Append(records,
                        [NoRecord EXCEPT !.question = question,
                                         !.corrected_sql = Str(corrected_sql),
                                         !.user_id = user_id, !.rating = 5]),
          cache   |-> cache]

\* add_correction when _save_to_disk raises: the record is changed or appended
\* already, the dict is not written, and the exception leaves the call
add_correction_unsaved(records, cache, question, corrected_sql, user_id) ==
    [records |-> add_correction(records, cache, question, corrected_sql, user_id).records,
     cache   |-> cache]

\* FeedbackService.get_correction
get_correction(cache, question) ==
    IF Lower(question) \in DOMAIN cache THEN Str(cache[Lower(question)]) ELSE None

VARIABLES
    vSql,       \* the candidate text handed to validate
    vResult,    \* the ValidationResult, or NoResult before the call
    qcache,     \* QueryCache._cache
    now,        \* time.time()
    cOut,       \* the last call on the cache and what it returned
    cSetLog,    \* per key, the arguments and time of the last set, whether the
                \* entry was removed since, and the hits it served
    rMinute,    \* RateLimiter._minute_tokens
    rHour,      \* RateLimiter._hour_tokens
    rnow,       \* time.time() as the rate limiter reads it
    rTicks,     \* how often that clock has advanced
    rPending,   \* the user whose admitted check awaits its consume, or NoUser
    rOut,       \* the last check and what it returned
    rHistory,   \* per user, the times of all consume calls
    runs,       \* per call of process_query, its AgentState and position
    memory,     \* ConversationMemory._sessions with ConversationMemory._contexts
    feedback,   \* FeedbackService._records
    calls,      \* how many calls of SupervisorAgent.process_query were made
    mLog,       \* per session id, every message add_message was called with
    iQuestion,  \* the question handed to IntentAgent.analyze
    iBackend,   \* what the chain of IntentAgent does in that call
    iResult,    \* what analyze returned, or None before the call
    lSql,       \* a query text handed to validate
    lFirst,     \* the ValidationResult of that call, or NoResult before it
    lSecond,    \* the ValidationResult for the sql of lFirst, or NoResult
    gCache,     \* ResponseCache._cache of the gateway
    gOrder,     \* ResponseCache._access_order
    gUsed,      \* the keys cached, least recently used first
    gEvicted,   \* the last key the eviction loop deleted and the least recently
                \* used key at that moment, or None
    gInv,       \* per slot, the call of AIGateway.invoke running in it
    gStarted,   \* how many calls of invoke were made
    dPending,   \* the database ids process_multi_database_query has yet to query
    dQuestion,  \* the question of that call
    dResults,   \* its results dict
    dOut,       \* the last call of MultiDatabaseSupervisor.process_query: the
                \* database_id passed and the response
    dCalls,     \* how many calls of that process_query were made
    fCorrections, \* FeedbackService._corrections_cache
    fOut        \* the last call on the FeedbackService and what it returned

vvars == <<vSql, vResult>>
cvars == <<qcache, now, cOut, cSetLog>>
rvars == <<rMinute, rHour, rnow, rTicks, rPending, rOut, rHistory>>
ivars == <<iQuestion, iBackend, iResult>>
lvars == <<lSql, lFirst, lSecond>>
gvars == <<gCache, gOrder, gUsed, gEvicted, gInv, gStarted>>
dvars == <<dPending, dQuestion, dResults, dOut, dCalls>>
fvars == <<fCorrections, fOut>>
xvars == <<gvars, dvars, fvars>>
nvars == <<ivars, lvars, xvars>>
hvars == <<calls, mLog, nvars>>
svars == <<runs, memory, feedback, hvars>>
vars == <<vvars, cvars, rvars, svars>>

NoResult == [is_valid |-> FALSE, sql |-> <<>>, errors |-> <<>>,
             warnings |-> <<>>, estimated_cost |-> "none"]

IdleV == vSql = <<>> /\ vResult = NoResult
IdleC == /\ qcache = <<>>
         /\ now = 0
         /\ cOut = [op |-> "none", q |-> <<>>, found |-> FALSE, ret |-> None]
         /\ cSetLog = [k \in {_hash_key(q) : q \in Questions} |-> None]

IdleR == /\ rMinute = <<>>
         /\ rHour = <<>>
         /\ rnow = 0
         /\ rTicks = 0
         /\ rPending = NoUser
         /\ rOut = [op |-> "none", user |-> "", admit |-> FALSE]
         /\ rHistory = [u \in Users |-> <<>>]

IdleI == /\ iQuestion = <<>>
         /\ iBackend = [kind |-> "none"]
         /\ iResult = None

IdleL == lSql = <<>> /\ lFirst = NoResult /\ lSecond = NoResult

IdleG == /\ gCache = <<>>
         /\ gOrder = <<>>
         /\ gUsed = <<>>
         /\ gEvicted = None
         /\ gInv = [i \in Slots |-> NoInvocation]
         /\ gStarted = 0

IdleD == /\ dPending = <<>>
         /\ dQuestion = <<>>
         /\ dResults = <<>>
         /\ dOut = [database_id |-> "", response |-> NoResponse]
         /\ dCalls = 0

IdleF == /\ fCorrections = <<>>
         /\ fOut = [op |-> "none", question |-> <<>>, sql |-> "", user_id |-> "",
                    existed |-> FALSE, ret |-> None]

IdleX == IdleG /\ IdleD /\ IdleF

IdleN == IdleI /\ IdleL /\ IdleX

IdleS == /\ runs = [r \in Runs |-> IdleRun]
         /\ memory = <<>>
         /\ feedback = <<>>
         /\ calls = 0
         /\ mLog = <<>>
         /\ IdleN

InitV == vSql \in Inputs /\ vResult = NoResult /\ IdleC /\ IdleR /\ IdleS

Validate ==
    /\ vResult = NoResult
    /\ vResult' = validate(vSql)
    /\ UNCHANGED <<vSql, cvars, rvars, svars>>

NextV == Validate

SpecV == InitV /\ [][NextV]_vars

(***************************************************************************)
(* The cache driven by arbitrary calls, under a clock                      *)
(***************************************************************************)
\* entries that a call removed are marked in the log of sets
LogAfter(log, c) ==
    [k \in DOMAIN log |->
        IF log[k] # None /\ ~HasKey(c, k) THEN [log[k] EXCEPT !.live = FALSE]
        ELSE log[k]]

InitC == IdleV /\ IdleC /\ IdleR /\ IdleS

CacheSet(q, sql, r) ==
    /\ qcache' = QueryCache_set(qcache, q, sql, r, now)
    /\ cOut' = [op |-> "set", q |-> q, found |-> FALSE, ret |-> None]
    /\ cSetLog' = LogAfter([cSetLog EXCEPT ![_hash_key(q)] =
                               [sql |-> sql, result |-> r, at |-> now,
                                live |-> TRUE, hits |-> 0]], qcache')
    /\ UNCHANGED <<now, vvars, rvars, svars>>

CacheGet(q) ==
    LET key == _hash_key(q)
        got == QueryCache_get(qcache, q, now)
    IN  /\ (HasKey(qcache, key) /\ ~IsExpired(EntryOf(qcache, key), now))
                => EntryOf(qcache, key).hit_count < MaxHits
        /\ qcache' = got.cache
        /\ cOut' = [op |-> "get", q |-> q, found |-> HasKey(qcache, key),
                    ret |-> got.ret]
        /\ cSetLog' = LogAfter(IF got.ret # None /\ cSetLog[key] # None
                               THEN [cSetLog EXCEPT ![key].hits = @ + 1]
                               ELSE cSetLog, qcache')
        /\ UNCHANGED <<now, vvars, rvars, svars>>

CacheInvalidate(q) ==
    /\ qcache' = QueryCache_invalidate(qcache, q)
    /\ cOut' = [op |-> "invalidate", q |-> q, found |-> FALSE, ret |-> None]
    /\ cSetLog' = LogAfter(cSetLog, qcache')
    /\ UNCHANGED <<now, vvars, rvars, svars>>

CacheClear ==
    /\ qcache' = QueryCache_clear(qcache)
    /\ cOut' = [op |-> "clear", q |-> <<>>, found |-> FALSE, ret |-> None]
    /\ cSetLog' = LogAfter(cSetLog, qcache')
    /\ UNCHANGED <<now, vvars, rvars, svars>>

Tick ==
    /\ now < MaxTime
    /\ now' = now + 1
    /\ cOut' = [op |-> "tick", q |-> <<>>, found |-> FALSE, ret |-> None]
    /\ UNCHANGED <<qcache, cSetLog, vvars, rvars, svars>>

NextC ==
    \/ \E q \in Questions, a \in SetArgs : CacheSet(q, a[1], a[2])
    \/ \E q \in Questions : CacheGet(q)
    \/ \E q \in Questions : CacheInvalidate(q)
    \/ CacheClear
    \/ Tick

SpecC == InitC /\ [][NextC]_vars

(***************************************************************************)
(* The cache driven by calls on more keys than it can hold                 *)
(***************************************************************************)
EQuestions == { <<"q">>, <<"r">>, <<"s">> }

InitE == /\ IdleV /\ IdleR /\ IdleS
         /\ qcache = <<>>
         /\ now = 0
         /\ cOut = [op |-> "none", q |-> <<>>, found |-> FALSE, ret |-> None]
         /\ cSetLog = [k \in {_hash_key(q) : q \in EQuestions} |-> None]

NextE ==
    \/ \E q \in EQuestions : CacheSet(q, "sql1", "rows1")
    \/ \E q \in EQuestions : CacheGet(q)
    \/ \E q \in EQuestions : CacheInvalidate(q)
    \/ CacheClear
    \/ Tick

SpecE == InitE /\ [][NextE]_vars

(***************************************************************************)
(* The rate limiter driven by callers that consume after an admitted check, *)
(* with no other call between the two, as in AIGateway.invoke              *)
(***************************************************************************)
InitR == IdleV /\ IdleC /\ IdleR /\ IdleS

Check(u) ==
    LET r == RateLimiter_check(rMinute, rHour, u, rnow) IN
    /\ rPending = NoUser
    /\ rMinute' = r.minute
    /\ rHour' = r.hour
    /\ rPending' = IF r.ret THEN u ELSE NoUser
    /\ rOut' = [op |-> "check", user |-> u, admit |-> r.ret]
    /\ UNCHANGED <<rnow, rTicks, rHistory, vvars, cvars, svars>>

Consume(u) ==
    LET r == RateLimiter_consume(rMinute, rHour, u, rnow) IN
    /\ rPending = u
    /\ Len(rHistory[u]) < MaxConsumes
    /\ rMinute' = r.minute
    /\ rHour' = r.hour
    /\ rPending' = NoUser
    /\ rOut' = [op |-> "consume", user |-> u, admit |-> FALSE]
    /\ rHistory' = [rHistory EXCEPT ![u] = Append(@, rnow)]
    /\ UNCHANGED <<rnow, rTicks, vvars, cvars, svars>>

\* AIGateway.invoke, lines 259-267: the prompt is in the gateway's cache, and the
\* admitted call returns without consuming
CachedReply(u) ==
    /\ rPending = u
    /\ rPending' = NoUser
    /\ rOut' = [op |-> "cached", user |-> u, admit |-> FALSE]
    /\ UNCHANGED <<rMinute, rHour, rnow, rTicks, rHistory, vvars, cvars, svars>>

RateTick(d) ==
    /\ rTicks < MaxTicks
    /\ rnow' = rnow + d
    /\ rTicks' = rTicks + 1
    /\ rOut' = [op |-> "tick", user |-> "", admit |-> FALSE]
    /\ UNCHANGED <<rMinute, rHour, rPending, rHistory, vvars, cvars, svars>>

NextR ==
    \/ \E u \in Users : Check(u)
    \/ \E u \in Users : Consume(u)
    \/ \E u \in Users : CachedReply(u)
    \/ \E d \in ClockSteps : RateTick(d)

SpecR == InitR /\ [][NextR]_vars

(***************************************************************************)
(* Calls of process_query, interleaved between the nodes of their graphs.  *)
(* Every call arrives through the /query route with an agent_id, so at     *)
(* MultiDatabaseSupervisor, which hands a SupervisorAgent the connector of  *)
(* the chosen database and the language model.                             *)
(***************************************************************************)
\* nodes that read and write nothing but the AgentState of their own call
LocalNodes == {"analyze_intent", "generate_sql", "generate_report", "validate_sql",
               "generate_visualization", "handle_error", "END", "responded",
               "raised"}

\* Such a node commutes with every step of another call and with the clock, so
\* it is run before anything else moves; the interleavings left out reach no
\* other value of the cache, the memory, the feedback log or the database.
Turn(r) == \A o \in Runs \ {r} : runs[o].node \notin LocalNodes

Init == IdleV /\ IdleC /\ IdleR /\ IdleS

\* the value of runs with run r replaced
Upd(r, st) == [runs EXCEPT ![r] = st]

\* process_query, lines 447-462: the initial AgentState enters the graph
StartQuery(r, question) ==
    /\ runs[r].node = "idle"
    /\ Turn(r)
    /\ r > 1 => runs[r - 1].node # "idle"
    /\ runs' = Upd(r, [IdleRun EXCEPT !.node = "check_cache",
                                     !.question = question])
    /\ calls' = calls + 1
    /\ UNCHANGED <<memory, feedback, mLog, nvars, vvars, cvars, rvars>>

\* MultiDatabaseSupervisor.process_query, lines 213-221, for a database id that
\* is not among the connectors, and the route's response for it
NoDatabase(r, question) ==
    /\ runs[r].node = "idle"
    /\ Turn(r)
    /\ r > 1 => runs[r - 1].node # "idle"
    /\ runs' = Upd(r, [IdleRun EXCEPT
                         !.node = "responded", !.question = question,
                         !.wrapped = NoDatabaseResponse(question),
                         !.served = RouteResponse(NoDatabaseResponse(question), TRUE)])
    /\ UNCHANGED <<memory, feedback, vvars, cvars, rvars, hvars>>

_check_cache(r) ==
    LET st  == runs[r]
        got == QueryCache_get(qcache, st.question, now)
        st1 == IF got.ret # None
               THEN [st EXCEPT !.query_result = got.ret.result,
                               !.sql_result = [sql |-> got.ret.sql,
                                               explanation |-> "(cached result)"]]
               ELSE st
    IN  /\ st.node = "check_cache" /\ Turn(r)
        /\ qcache' = got.cache
        /\ runs' = Upd(r, [st1 EXCEPT
                             !.node = _route_after_cache(st1),
                             !.hit = (_route_after_cache(st1) = "END")])
        /\ UNCHANGED <<now, cOut, cSetLog, memory, feedback, vvars, rvars, hvars>>

_load_memory(r) ==
    LET st == runs[r] IN
    /\ st.node = "load_memory" /\ Turn(r)
    /\ memory' = add_message(memory, DefaultUser, "user", [text |-> st.question],
                             "", None)
    /\ runs' = Upd(r, [st EXCEPT
                         !.conversation_context =
                             get_context_for_prompt(memory, DefaultUser, ""),
                         !.node = "analyze_intent"])
    /\ UNCHANGED <<feedback, vvars, cvars, rvars, hvars>>

_analyze_intent(r) ==
    LET st == runs[r] IN
    /\ st.node = "analyze_intent" /\ Turn(r)
    /\ \E t \in IntentTypes :
         LET st1 == [st EXCEPT !.intent = [intent_type |-> t],
                               !.intent_input = [question |-> st.question,
                                                 context |-> None]] IN
         runs' = Upd(r, [st1 EXCEPT !.node = _route_after_intent(st1)])
    /\ UNCHANGED <<memory, feedback, vvars, cvars, rvars, hvars>>

\* SQLWriterAgent.generate_sql hands back the model's text or its error report,
\* or the call raises before that
_generate_sql(r) ==
    LET st == runs[r] IN
    /\ st.node = "generate_sql" /\ Turn(r)
    /\ \E out \in {[raised |-> FALSE, sql |-> s] : s \in WriterSqls}
                  \cup {[raised |-> TRUE, sql |-> <<>>]} :
         runs' = Upd(r,
            IF out.raised
            THEN [st EXCEPT !.error = Str("SQL generation failed: error"),
                            !.generated = TRUE, !.node = "validate_sql"]
            ELSE [st EXCEPT !.sql_result = [sql |-> out.sql,
                                            explanation |-> "(generated)"],
                            !.generated = TRUE, !.node = "validate_sql"])
    /\ UNCHANGED <<memory, feedback, vvars, cvars, rvars, hvars>>

_generate_report(r) ==
    LET st == runs[r] IN
    /\ st.node = "generate_report" /\ Turn(r)
    /\ \E report \in generate_report(st.question) :
         runs' = Upd(r,
            IF Len(report.sql_queries) > 0
            THEN [st EXCEPT !.sql_result = [sql |-> report.sql_queries[1],
                                            explanation |-> "(report)"],
                            !.generated = TRUE, !.node = "validate_sql"]
            ELSE [st EXCEPT !.error = IF report.error # None THEN report.error
                                      ELSE Str("No SQL generated"),
                            !.generated = TRUE, !.node = "validate_sql"])
    /\ UNCHANGED <<memory, feedback, vvars, cvars, rvars, hvars>>

\* InsightAgent.generate_insight runs inside the node, its calls of
\* db_connector.execute included
_generate_insight(r) ==
    LET st == runs[r] IN
    /\ st.node = "generate_insight" /\ Turn(r)
    /\ \E insight \in generate_insight(st.question, TRUE) :
         LET sent == [i \in 1..Len(insight.executed) |->
                         [sql |-> insight.executed[i],
                          validated |-> /\ st.validation # None
                                        /\ st.validation.is_valid
                                        /\ st.validation.sql = insight.executed[i]]]
             st1  == [st EXCEPT !.executed = @ \o sent, !.generated = TRUE,
                                !.node = "validate_sql"]
         IN  runs' = Upd(r,
                IF Len(insight.sql_queries) > 0
                THEN [st1 EXCEPT !.sql_result = [sql |-> insight.sql_queries[1],
                                                 explanation |-> "(insight)"]]
                ELSE [st1 EXCEPT !.error = Str("No SQL generated from insight")])
    /\ UNCHANGED <<memory, feedback, vvars, cvars, rvars, hvars>>

_validate_sql(r) ==
    LET st == runs[r]
        validation == validate(st.sql_result.sql)
    IN  /\ st.node = "validate_sql" /\ Turn(r)
        /\ runs' = Upd(r,
             IF st.sql_result = None \/ st.sql_result.sql = <<>>
             THEN [st EXCEPT !.error = Str("No SQL generated"),
                             !.node = _route_after_validation(st)]
             ELSE IF StartsWith(Strip(st.sql_result.sql), <<"/", "*", "\n", "E", "R", "R", "O", "R">>)
             THEN [st EXCEPT !.error = Str("SQL Generation Failed (see details in SQL console)"),
                             !.node = _route_after_validation(st)]
             ELSE LET st1 == [st EXCEPT !.validation = validation, !.validated = TRUE]
                  IN  [st1 EXCEPT !.error = IF validation.is_valid THEN st.error
                                            ELSE Str(JoinErrors(validation.errors)),
                                  !.node = _route_after_validation(st1)])
        /\ UNCHANGED <<memory, feedback, vvars, cvars, rvars, hvars>>

\* db_connector.execute returns the rows or raises
_execute_query(r) ==
    LET st == runs[r] IN
    /\ st.node = "execute_query" /\ Turn(r)
    /\ \E ok \in BOOLEAN :
         LET st1 == [st EXCEPT !.executed =
                        Append(@, [sql |-> st.validation.sql,
                                   validated |-> st.validation.is_valid]),
                               !.node = "generate_visualization"]
         IN  runs' = Upd(r,
                IF st.validation = None
                THEN [st EXCEPT !.error = Str("No validated SQL"),
                                !.node = "generate_visualization"]
                ELSE IF ok THEN [st1 EXCEPT !.query_result = QUERY_RESULT]
                ELSE [st1 EXCEPT !.error = Str("Query execution failed: error")])
    /\ UNCHANGED <<memory, feedback, vvars, cvars, rvars, hvars>>

_generate_visualization(r) ==
    LET st == runs[r] IN
    /\ st.node = "generate_visualization" /\ Turn(r)
    /\ runs' = Upd(r,
         IF DictTruthy(st.query_result) /\ ~Truthy(st.error)
         THEN [st EXCEPT !.visualization = Dict({"type", "title", "data"}),
                         !.node = "record_feedback"]
         ELSE [st EXCEPT !.node = "record_feedback"])
    /\ UNCHANGED <<memory, feedback, vvars, cvars, rvars, hvars>>

\* the cache write of every run that reaches _record_feedback, failed or not
CacheWriteUnguarded(st) == TRUE

\* _record_feedback, line 424: if self.cache and not state.get("error")
CacheWriteAllowed(st) == ~Truthy(st.error)

\* FeedbackService.record_query appends the record and then writes the file, which
\* may raise; the exception leaves the node, the graph and process_query
_record_feedback(r) ==
    LET st == runs[r]
        ok == ~Truthy(st.error)
        records == IF st.sql_result # None
                   THEN Append(feedback,
                               [question |-> st.question,
                                original_sql |-> st.sql_result.sql,
                                user_id |-> DefaultUser, was_executed |-> TRUE,
                                execution_success |-> ok])
                   ELSE feedback
    IN  /\ st.node = "record_feedback" /\ Turn(r)
        /\ feedback' = records
        /\ \E saved \in (IF st.sql_result # None THEN BOOLEAN ELSE {TRUE}) :
             IF saved
             THEN /\ memory' =
                       IF ok
                       THEN add_message(memory, DefaultUser, "assistant",
                               Str(IF st.sql_result # None
                                   THEN st.sql_result.explanation ELSE ""),
                               "",
                               [sql |-> IF st.sql_result # None
                                        THEN st.sql_result.sql ELSE <<>>])
                       ELSE memory
                  /\ qcache' =
                       IF CacheWriteAllowed(st)
                       THEN QueryCache_set(qcache, st.question,
                               IF st.validation # None THEN st.validation.sql
                               ELSE <<>>,
                               st.query_result, now)
                       ELSE qcache
                  /\ runs' = Upd(r, [st EXCEPT !.wrote = CacheWriteAllowed(st),
                                                     !.node = "END"])
             ELSE /\ runs' = Upd(r, [st EXCEPT !.node = "raised"])
                  /\ UNCHANGED <<memory, qcache>>
        /\ UNCHANGED <<now, cOut, cSetLog, vvars, rvars, hvars>>

_handle_error(r) ==
    LET st == runs[r] IN
    /\ st.node = "handle_error" /\ Turn(r)
    /\ runs' = Upd(r, [st EXCEPT !.error = IF Truthy(st.error) THEN st.error
                                           ELSE Str("Unknown error occurred"),
                                 !.node = "END"])
    /\ UNCHANGED <<memory, feedback, vvars, cvars, rvars, hvars>>

\* process_query, lines 464-489, then MultiDatabaseSupervisor.process_query,
\* lines 241-249, then the route
Respond(r) ==
    LET st     == runs[r]
        result == BuildResponse(st)
    IN  /\ st.node = "END" /\ Turn(r)
        /\ runs' = Upd(r, [st EXCEPT !.response = result,
                                     !.wrapped = AddDatabaseInfo(result),
                                     !.served = RouteResponse(AddDatabaseInfo(result), TRUE),
                                     !.succeeded = result.success,
                                     !.node = "responded"])
        /\ UNCHANGED <<memory, feedback, vvars, cvars, rvars, hvars>>

\* the call is over: its AgentState and its response objects are gone, or, where
\* process_query raised, the route has answered with status 500; what the call
\* did stays on record
Return(r) ==
    LET st == runs[r] IN
    /\ st.node \in {"responded", "raised"} /\ Turn(r)
    /\ runs' = Upd(r, [IdleRun EXCEPT
                         !.node = "done", !.question = st.question,
                         !.executed = st.executed, !.generated = st.generated,
                         !.validated = st.validated, !.hit = st.hit,
                         !.wrote = st.wrote, !.succeeded = st.succeeded])
    /\ UNCHANGED <<memory, feedback, vvars, cvars, rvars, hvars>>

\* time.time() moves past the life of every entry now cached
Elapse ==
    /\ \A r \in Runs : runs[r].node \notin LocalNodes
    /\ now + CacheTtl + 1 <= MaxTime
    /\ now' = now + CacheTtl + 1
    /\ UNCHANGED <<qcache, cOut, cSetLog, vvars, rvars, svars>>

Next ==
    \/ \E r \in Runs, q \in SQuestions : StartQuery(r, q)
    \/ \E r \in Runs, q \in SQuestions : NoDatabase(r, q)
    \/ \E r \in Runs : _check_cache(r)
    \/ \E r \in Runs : _load_memory(r)
    \/ \E r \in Runs : _analyze_intent(r)
    \/ \E r \in Runs : _generate_sql(r)
    \/ \E r \in Runs : _generate_report(r)
    \/ \E r \in Runs : _generate_insight(r)
    \/ \E r \in Runs : _validate_sql(r)
    \/ \E r \in Runs : _execute_query(r)
    \/ \E r \in Runs : _generate_visualization(r)
    \/ \E r \in Runs : _record_feedback(r)
    \/ \E r \in Runs : _handle_error(r)
    \/ \E r \in Runs : Respond(r)
    \/ \E r \in Runs : Return(r)
    \/ Elapse

Spec == Init /\ [][Next]_vars

(***************************************************************************)
(* validate applied to a SELECT statement and then to the sql it returned  *)
(***************************************************************************)
MaxTail == 4           \* a statement ends with at most MaxTail pieces

SELECT_X == <<"S","E","L","E","C","T"," ","x">>

\* the pieces that may follow SELECT x
TailAtoms == << <<"-">>, <<"/","*","*","/">>, <<";">>, <<" ">>,
               <<" ">> \o LIMIT_ \o <<" ","5">> >>

LInputs == { SELECT_X \o Concat([i \in 1..Len(ix) |-> TailAtoms[ix[i]]]) :
               ix \in UNION { [1..n -> 1..Len(TailAtoms)] : n \in 0..MaxTail } }

InitL == /\ IdleV /\ IdleC /\ IdleR
         /\ runs = [r \in Runs |-> IdleRun]
         /\ memory = <<>> /\ feedback = <<>> /\ calls = 0 /\ mLog = <<>>
         /\ IdleI /\ IdleX
         /\ lSql \in LInputs /\ lFirst = NoResult /\ lSecond = NoResult

ValidateFirst ==
    /\ lFirst = NoResult
    /\ lFirst' = validate(lSql)
    /\ UNCHANGED <<lSql, lSecond, ivars, xvars, vvars, cvars, rvars, runs, memory, feedback,
                   calls, mLog>>

ValidateAgain ==
    /\ lFirst # NoResult /\ lSecond = NoResult
    /\ lSecond' = validate(lFirst.sql)
    /\ UNCHANGED <<lSql, lFirst, ivars, xvars, vvars, cvars, rvars, runs, memory, feedback,
                   calls, mLog>>

NextL == ValidateFirst \/ ValidateAgain

SpecL == InitL /\ [][NextL]_vars

(***************************************************************************)
(* IntentAgent.analyze applied to a question, under every outcome of the   *)
(* backend, with the route the supervisor takes after it                   *)
(***************************************************************************)
MaxWords == 2          \* a question is made of at most MaxWords words

IWords == << <<"R","e","p","o","r","t">>, <<"W","H","Y">>, <<"h","e","l","p">>, <<"p","o","l","i","c","y">>, <<"t","o","t","a","l">>, <<"v","e","r","s","u","s">>, <<"o","r","d","e","r","s">>, <<"q">> >>

\* " ".join(ws)
RECURSIVE JoinWords(_)
JoinWords(ws) ==
    IF Len(ws) = 0 THEN <<>>
    ELSE IF Len(ws) = 1 THEN ws[1]
    ELSE ws[1] \o <<" ">> \o JoinWords(Tail(ws))

IQuestions == { JoinWords([i \in 1..Len(ix) |-> IWords[ix[i]]]) :
                  ix \in UNION { [1..n -> 1..Len(IWords)] : n \in 0..MaxWords } }

InitI == /\ IdleV /\ IdleC /\ IdleR
         /\ runs = [r \in Runs |-> IdleRun]
         /\ memory = <<>> /\ feedback = <<>> /\ calls = 0 /\ mLog = <<>>
         /\ iQuestion \in IQuestions
         /\ iBackend = [kind |-> "none"]
         /\ iResult = None
         /\ IdleL /\ IdleX

Analyze(backend) ==
    /\ iResult = None
    /\ iBackend' = backend
    /\ iResult' = analyze(iQuestion, backend)
    /\ UNCHANGED <<iQuestion, lvars, xvars, vvars, cvars, rvars, runs, memory, feedback,
                   calls, mLog>>

NextI == \E backend \in BackendOutcomes : Analyze(backend)

SpecI == InitI /\ [][NextI]_vars

(***************************************************************************)
(* AIGateway.invoke called from two concurrent tasks, one await at a time,  *)
(* under every outcome of the backends and a clock                         *)
(***************************************************************************)
\* the keys cached, least recently used first, after a call that left the
\* cache as c and used the key (touched) or not
UsedAfter(used, c, key, touched) ==
    LET kept == SelectSeq(used, LAMBDA k : k \in DOMAIN c /\ (touched => k # key))
    IN  IF touched /\ key \in DOMAIN c THEN Append(kept, key) ELSE kept

\* invoke, lines 289-291: cache.set for a result whose "error" is not truthy
CacheAfterBackends(cache, order, prompt, res, t) ==
    IF ~Truthy(res.error) /\ cache_enabled
    THEN ResponseCache_set(cache, order, prompt, primary_model,
                           IF res.content = None THEN "" ELSE res.content.str, t)
    ELSE [cache |-> cache, order |-> order]

InitG == IdleV /\ IdleC /\ IdleR /\ IdleS

\* invoke up to its first await: the rate limit, the cache, the token
InvokeStart(i, prompt, use_cache) ==
    LET chk  == RateLimiter_check(rMinute, rHour, GatewayUser, rnow)
        key  == ResponseCache_hash_key(prompt, primary_model)
        got  == IF use_cache /\ cache_enabled
                THEN ResponseCache_get(gCache, gOrder, prompt, primary_model, rnow)
                ELSE [cache |-> gCache, order |-> gOrder, ret |-> None]
        con  == RateLimiter_consume(chk.minute, chk.hour, GatewayUser, rnow)
        call == [NoInvocation EXCEPT !.prompt = prompt, !.use_cache = use_cache]
    IN  /\ gInv[i].pc \in {"idle", "done"}
        /\ gStarted < MaxInvokes
        /\ gStarted' = gStarted + 1
        /\ IF ~chk.ret
           THEN /\ gInv' = [gInv EXCEPT ![i] =
                              [call EXCEPT !.pc = "done", !.result = RateLimitedResult]]
                /\ rMinute' = chk.minute /\ rHour' = chk.hour
                /\ UNCHANGED <<gCache, gOrder, gUsed>>
           ELSE /\ gCache' = got.cache
                /\ gOrder' = got.order
                /\ gUsed' = UsedAfter(gUsed, got.cache, key, got.ret # None)
                /\ IF Truthy(got.ret)
                   THEN /\ gInv' = [gInv EXCEPT ![i] =
                                      [call EXCEPT !.pc = "done",
                                                   !.result = CachedResult(got.ret)]]
                        /\ rMinute' = chk.minute /\ rHour' = chk.hour
                   ELSE /\ gInv' = [gInv EXCEPT ![i] = [call EXCEPT !.pc = "primary"]]
                        /\ rMinute' = con.minute /\ rHour' = con.hour
        /\ UNCHANGED <<gEvicted, rnow, rTicks, rPending, rOut, rHistory, vvars, cvars,
                       runs, memory, feedback, calls, mLog, ivars, lvars, dvars, fvars>>

\* one pass of the loop of _invoke_with_retry: llm.ainvoke and what follows it up
\* to the next await, which is the end of invoke when the loop is left for good
Attempt(i, o) ==
    LET inv      == gInv[i]
        which    == inv.pc
        tried    == [inv EXCEPT !.calls[which] = @ + 1,
                                !.failed[which] = IF o.ok THEN @ ELSE @ + 1]
        returned == IF o.ok THEN ContentResult(o.text, which)
                    ELSE ErrorResult(Str(o.text), which)
        leaves   == o.ok \/ inv.attempt >= max_retries - 1
        falls    == /\ which = "primary"
                    /\ Truthy(returned.error)
                    /\ fallback_provider # None
        after    == CacheAfterBackends(gCache, gOrder, inv.prompt, returned, rnow)
        key      == ResponseCache_hash_key(inv.prompt, primary_model)
        deleted  == DOMAIN gCache \ DOMAIN EvictAtCapacity(gCache, gOrder).cache
    IN  /\ inv.pc \in {"primary", "fallback"}
        /\ IF ~leaves
           THEN /\ gInv' = [gInv EXCEPT ![i] =
                              [tried EXCEPT !.attempt = @ + 1,
                                            !.waits = Append(@,
                                               [provider |-> which,
                                                attempt  |-> inv.attempt,
                                                seconds  |-> BackoffSeconds(inv.attempt)])]]
                /\ UNCHANGED <<gCache, gOrder, gUsed, gEvicted>>
           ELSE IF falls
           THEN /\ gInv' = [gInv EXCEPT ![i] =
                              [tried EXCEPT !.pc = "fallback", !.attempt = 0]]
                /\ UNCHANGED <<gCache, gOrder, gUsed, gEvicted>>
           ELSE /\ gInv' = [gInv EXCEPT ![i] =
                              [tried EXCEPT !.pc = "done", !.result = returned]]
                /\ gCache' = after.cache
                /\ gOrder' = after.order
                /\ gUsed' = UsedAfter(gUsed, after.cache, key, ~Truthy(returned.error))
                /\ gEvicted' = IF ~Truthy(returned.error) /\ deleted # {}
                               THEN [keys |-> deleted, lru |-> Head(gUsed)]
                               ELSE gEvicted
        /\ UNCHANGED <<gStarted, rvars, vvars, cvars, runs, memory, feedback, calls,
                       mLog, ivars, lvars, dvars, fvars>>

\* time.time() moves on, by a second or by the lifetime of a cached response
GatewayTick(d) ==
    /\ rTicks < MaxTicks
    /\ rnow' = rnow + d
    /\ rTicks' = rTicks + 1
    /\ UNCHANGED <<rMinute, rHour, rPending, rOut, rHistory, gvars, vvars, cvars,
                   runs, memory, feedback, calls, mLog, ivars, lvars, dvars, fvars>>

\* one task calls invoke, and its backends answer or fail in every way
NextG ==
    \/ \E prompt \in Prompts, use_cache \in BOOLEAN : InvokeStart(1, prompt, use_cache)
    \/ \E o \in LlmOutcomes : Attempt(1, o)
    \/ \E d \in {1, cache_ttl_seconds} : GatewayTick(d)

SpecG == InitG /\ [][NextG]_vars

\* two tasks call invoke, and the primary backend answers
NextH ==
    \/ \E i \in Slots, prompt \in Prompts, use_cache \in BOOLEAN :
          InvokeStart(i, prompt, use_cache)
    \/ \E i \in Slots : Attempt(i, [ok |-> TRUE, text |-> "answer"])
    \/ \E d \in {1, cache_ttl_seconds} : GatewayTick(d)

SpecH == InitG /\ [][NextH]_vars

(***************************************************************************)
(* MultiDatabaseSupervisor answering single requests and requests over     *)
(* several databases, in sequence, under a clock                           *)
(***************************************************************************)
\* target_dbs of process_multi_database_query: database_ids, or the connectors
MultiTargets == { <<"sales", "hr">>, <<"hr", "sales">>, <<"gone", "hr">> }

InitD == IdleV /\ IdleC /\ IdleR /\ IdleS

\* MultiDatabaseSupervisor.process_query(question, database_id = db)
ProcessQueryOn(question, db, outcome) ==
    LET p == ProcessOnDatabase(qcache, question, db, outcome, now) IN
    /\ dPending = <<>>
    /\ dCalls < MaxRequests
    /\ qcache' = p.cache
    /\ dOut' = [database_id |-> db, response |-> p.response]
    /\ dCalls' = dCalls + 1
    /\ UNCHANGED <<dPending, dQuestion, dResults, now, cOut, cSetLog, vvars, rvars,
                   runs, memory, feedback, calls, mLog, ivars, lvars, gvars, fvars>>

\* process_multi_database_query up to its loop
MultiStart(question, dbs) ==
    /\ dPending = <<>>
    /\ dCalls + Len(dbs) <= MaxRequests
    /\ dPending' = dbs
    /\ dQuestion' = question
    /\ dResults' = <<>>
    /\ UNCHANGED <<dOut, dCalls, vvars, cvars, rvars, runs, memory, feedback, calls,
                   mLog, ivars, lvars, gvars, fvars>>

\* one pass of the loop of process_multi_database_query, lines 265-283
MultiNext(outcome) ==
    LET db == Head(dPending)
        p  == ProcessOnDatabase(qcache, dQuestion, db, outcome, now)
        entry == IF p.response.raised
                 THEN [success |-> FALSE, data |-> None, error |-> Str("error"),
                       database |-> None]
                 ELSE [success |-> p.response.success, data |-> p.response.data,
                       error |-> p.response.error, database |-> p.response.database]
    IN  /\ dPending # <<>>
        /\ dPending' = Tail(dPending)
        /\ dCalls' = dCalls + 1
        /\ IF db \in Databases
           THEN /\ qcache' = p.cache
                /\ dResults' = DictSet(dResults, db, entry)
                /\ dOut' = [database_id |-> db, response |-> p.response]
           ELSE UNCHANGED <<qcache, dResults, dOut>>
        /\ UNCHANGED <<dQuestion, now, cOut, cSetLog, vvars, rvars, runs, memory,
                       feedback, calls, mLog, ivars, lvars, gvars, fvars>>

NextD ==
    \/ \E question \in Questions, db \in DatabaseIds, outcome \in PipelineOutcomes :
          ProcessQueryOn(question, db, outcome)
    \/ \E question \in Questions, dbs \in MultiTargets : MultiStart(question, dbs)
    \/ \E outcome \in PipelineOutcomes : MultiNext(outcome)
    \/ Tick

SpecD == InitD /\ [][NextD]_vars

(***************************************************************************)
(* FeedbackService driven by arbitrary calls                               *)
(***************************************************************************)
InitF == IdleV /\ IdleC /\ IdleR /\ IdleS

\* FeedbackService.record_query
RecordQuery(question, user_id) ==
    /\ Len(feedback) < MaxRecords
    /\ feedback' = Append(feedback, [NoRecord EXCEPT !.question = question,
                                                     !.original_sql = "sql0",
                                                     !.user_id = user_id])
    /\ fOut' = [op |-> "record_query", question |-> question, sql |-> "sql0",
                user_id |-> user_id, existed |-> FALSE, ret |-> None]
    /\ UNCHANGED <<fCorrections, vvars, cvars, rvars, runs, memory, calls, mLog,
                   ivars, lvars, gvars, dvars>>

\* FeedbackService.add_correction
AddCorrection(question, corrected_sql, user_id, saved) ==
    LET existed == LastMatch(feedback, question, user_id) > 0
        after   == IF saved
                   THEN add_correction(feedback, fCorrections, question,
                                       corrected_sql, user_id)
                   ELSE add_correction_unsaved(feedback, fCorrections, question,
                                               corrected_sql, user_id)
    IN  /\ existed \/ Len(feedback) < MaxRecords
        /\ feedback' = after.records
        /\ fCorrections' = after.cache
        /\ fOut' = [op |-> "add_correction", question |-> question,
                    sql |-> corrected_sql, user_id |-> user_id, existed |-> existed,
                    ret |-> IF saved THEN ReturnedTrue ELSE Raised]
        /\ UNCHANGED <<vvars, cvars, rvars, runs, memory, calls, mLog, ivars, lvars,
                       gvars, dvars>>

\* FeedbackService.get_correction
GetCorrection(question) ==
    /\ fOut' = [op |-> "get_correction", question |-> question, sql |-> "",
                user_id |-> "", existed |-> FALSE,
                ret |-> get_correction(fCorrections, question)]
    /\ UNCHANGED <<feedback, fCorrections, vvars, cvars, rvars, runs, memory, calls,
                   mLog, ivars, lvars, gvars, dvars>>

NextF ==
    \/ \E question \in FQuestions, user_id \in Users : RecordQuery(question, user_id)
    \/ \E question \in FQuestions, corrected_sql \in FSqls, user_id \in Users,
          saved \in BOOLEAN : AddCorrection(question, corrected_sql, user_id, saved)
    \/ \E question \in FQuestions : GetCorrection(question)

SpecF == InitF /\ [][NextF]_vars

(***************************************************************************)
(* ConversationMemory driven by arbitrary add_message calls on two sessions *)
(***************************************************************************)
MaxAdds == 5           \* add_message is followed for MaxAdds calls

TOTAL_REVENUE == <<"t","o","t","a","l"," ","r","e","v","e","n","u","e">>
COUNT_SALES_TODAY == <<"c","o","u","n","t"," ","s","a","l","e","s"," ","t","o","d","a","y">>

\* the session_id arguments, the texts of user messages, and the assistant
\* messages with their metadata
SessionIds == {"", "s1"}
UserTexts == { TOTAL_REVENUE, COUNT_SALES_TODAY, <<"q">> }
MessageArgs ==
    { [role |-> "user", content |-> [text |-> t], metadata |-> None] : t \in UserTexts }
    \cup { [role |-> "assistant", content |-> Str("(generated)"),
            metadata |-> [sql |-> SELECT_CUSTOMERS]] }

\* the messages add_message was called with for all sessions together
RECURSIVE TotalAdds(_)
TotalAdds(log) ==
    IF DOMAIN log = {} THEN 0
    ELSE LET sid == CHOOSE x \in DOMAIN log : TRUE
         IN  Len(log[sid]) + TotalAdds([y \in DOMAIN log \ {sid} |-> log[y]])

InitM == IdleV /\ IdleC /\ IdleR /\ IdleS

AddMessage(session_id, a) ==
    LET sid == _get_session_id(DefaultUser, session_id) IN
    /\ TotalAdds(mLog) < MaxAdds
    /\ memory' = add_message(memory, DefaultUser, a.role, a.content, session_id,
                             a.metadata)
    /\ mLog' = DictSet(mLog, sid,
                       Append(TokensOf(mLog, sid),
                              [role |-> a.role, content |-> a.content]))
    /\ UNCHANGED <<runs, feedback, calls, nvars, vvars, cvars, rvars>>

NextM == \E session_id \in SessionIds, a \in MessageArgs : AddMessage(session_id, a)

SpecM == InitM /\ [][NextM]_vars

(***************************************************************************)
(* One user sending request after request within one minute, each after    *)
(* the answer to the one before, while every collaborator does well: the   *)
(* intent is data_retrieval, the writer hands back a SELECT, the database  *)
(* returns rows and the feedback file is written.                          *)
(***************************************************************************)
SHOW_REVENUE == <<"S","h","o","w"," ","r","e","v","e","n","u","e"," ","b","y"," ","m","o","n","t","h">>
NOW_BREAK_DOWN == <<"N","o","w"," ","b","r","e","a","k"," ","i","t"," ","d","o","w","n"," ","b","y"," ","r","e","g","i","o","n">>

\* the questions of the user
QQuestions == { SHOW_REVENUE, NOW_BREAK_DOWN, <<"q">> }

\* the user sends one request more than the minute limit admits
MaxCalls == 4

\* AIGateway.invoke, line 254: the error of a call that the limiter denied
RATE_LIMIT_ERROR == Str("Rate limit exceeded. Please try again later.")

\* the collaborators of the call do well
Smooth(st) ==
    /\ st.node # "raised"
    /\ st.error = None
    /\ st.intent \in {None, [intent_type |-> "data_retrieval"]}
    /\ st.sql_result # None =>
          st.hit \/ st.sql_result.sql = SELECT_CUSTOMERS

\* the user's next request: the route is ready for another call
NextRequest(r) ==
    /\ runs[r].node = "done"
    /\ calls < MaxCalls
    /\ runs' = Upd(r, IdleRun)
    /\ UNCHANGED <<memory, feedback, vvars, cvars, rvars, hvars>>

NextQ ==
    \/ \E q \in QQuestions : StartQuery(1, q) /\ Smooth(runs'[1])
    \/ _check_cache(1) /\ Smooth(runs'[1])
    \/ _load_memory(1) /\ Smooth(runs'[1])
    \/ _analyze_intent(1) /\ Smooth(runs'[1])
    \/ _generate_sql(1) /\ Smooth(runs'[1])
    \/ _validate_sql(1) /\ Smooth(runs'[1])
    \/ _execute_query(1) /\ Smooth(runs'[1])
    \/ _generate_visualization(1) /\ Smooth(runs'[1])
    \/ _record_feedback(1) /\ Smooth(runs'[1])
    \/ Respond(1) /\ Smooth(runs'[1])
    \/ Return(1) /\ Smooth(runs'[1])
    \/ NextRequest(1)

SpecQ == Init /\ [][NextQ]_vars

(***************************************************************************)
(* Claims about ValidationAgent.validate, checked under SpecV              *)
(***************************************************************************)
Validated == vResult # NoResult

\* the ten keywords the safety property lists, each as a whole word in any case
ListedKeywords == {DROP_, DELETE_, UPDATE_, INSERT_, TRUNCATE_, ALTER_, GRANT_,
                   REVOKE_, EXEC_, EXECUTE_}
ContainsListedKeyword(s) == \E w \in ListedKeywords : Search(WholeWord(w), s)

\* the text begins with the letters SELECT, in any letter case
BeginsWithSelect(s) ==
    Len(s) >= Len(SELECT_) /\ \A i \in 1..Len(SELECT_) : ToUpper(s[i]) = SELECT_[i]

\* C2 as stated: every candidate text that contains one of the listed keywords as
\* a whole word, in any letter case, is rejected by validate.
C2_AsStated ==
    (Validated /\ ContainsListedKeyword(vSql)) => ~vResult.is_valid

\* C2, amended: every candidate whose cleaned text (comments removed, whitespace
\* collapsed, trailing semicolons stripped) contains one of the listed keywords
\* as a whole word, in any letter case, is rejected by validate.
C2_CleanedKeywordRejected ==
    (Validated /\ ContainsListedKeyword(_clean_sql(vSql))) => ~vResult.is_valid

\* a lower-case keyword after SELECT, outside any comment, has been rejected
C2_Witness ==
    /\ Validated
    /\ StartsWith(vSql, SELECT_)
    /\ Search(<<Lit(" ")>> \o Word(EXEC_), _clean_sql(vSql))
    /\ ~vResult.is_valid

\* C3 as stated: every candidate text that does not begin with SELECT (in any
\* letter case, leading whitespace aside) is rejected by validate.
C3_AsStated ==
    (Validated /\ ~BeginsWithSelect(Strip(vSql))) => ~vResult.is_valid

\* C3, amended: every candidate whose cleaned text does not begin with the letters
\* SELECT (in any letter case) is rejected by validate, whatever else it contains.
C3_CleanedNotSelectRejected ==
    (Validated /\ ~BeginsWithSelect(_clean_sql(vSql)))
        => ~vResult.is_valid

\* a text that holds SELECT, but not at the start of its cleaned form, and no
\* blocked pattern, has been rejected
C3_Witness ==
    /\ Validated
    /\ Search(Word(SELECT_), _clean_sql(vSql))
    /\ ~BeginsWithSelect(_clean_sql(vSql))
    /\ \A k \in 1..Len(BLOCKED_PATTERNS) : ~Search(BLOCKED_PATTERNS[k].re, vSql)
    /\ ~vResult.is_valid

\* C4: is_valid is true exactly when no blocked pattern matched the cleaned text
\* and the cleaned text starts with SELECT; a valid result's sql (with any
\* appended LIMIT) starts with SELECT and matches no blocked pattern; is_valid is
\* decided by the errors alone, whatever the warnings.
C4_ValidIffSafe ==
    Validated =>
        LET cleaned == _clean_sql(vSql)
            noBlocked(t) == \A k \in 1..Len(BLOCKED_PATTERNS) :
                                ~Search(BLOCKED_PATTERNS[k].re, t)
        IN  /\ vResult.is_valid <=>
                  (noBlocked(cleaned) /\ BeginsWithSelect(cleaned))
            /\ vResult.is_valid =>
                  /\ BeginsWithSelect(vResult.sql)
                  /\ noBlocked(vResult.sql)
            /\ vResult.is_valid <=> (vResult.errors = <<>>)

\* a valid result that carries warnings and the appended LIMIT, from a text that
\* needed cleaning
C4_Witness ==
    /\ Validated
    /\ vResult.is_valid
    /\ Len(vResult.warnings) > 0
    /\ vSql # _clean_sql(vSql)
    /\ vResult.sql = _clean_sql(vSql) \o LIMIT_1000

\* validate appended its default cap to the cleaned text
Capped ==
    /\ vResult.sql = RStripChar(_clean_sql(vSql), ";") \o LIMIT_1000
    /\ InList("Added LIMIT 1000 to prevent large result sets", vResult.warnings)

\* C23: of the accepted statements without LIMIT that call an aggregate function,
\* validate caps those with a GROUP BY clause (appended LIMIT 1000 and the warning)
\* and returns those without GROUP BY uncapped.
C23_AsStated ==
    ( /\ Validated /\ vResult.is_valid
      /\ HasAggregate(_clean_sql(vSql))
      /\ ~HasLimit(_clean_sql(vSql)) ) =>
        (Capped <=> HasGroupBy(_clean_sql(vSql)))

\* C30: every text that ExecuteSQLTool._validate_sql accepts is accepted by
\* validate with is_valid = true.
C30_AsStated ==
    (Validated /\ ExecuteSQLTool_validate_sql(vSql)) => vResult.is_valid

(***************************************************************************)
(* Claims about QueryCache, checked under SpecC                            *)
(***************************************************************************)
\* C8: a get for a question with the same normalized text as an earlier set, with
\* the entry not removed since and at most ttl_seconds elapsed, returns the sql
\* and result of that set unchanged; a get more than ttl_seconds after the set
\* returns None and leaves no entry for the key, whatever hits came in between.
C8_RoundTripAndExpiry ==
    cOut.op = "get" =>
        LET key == _hash_key(cOut.q)
            w   == cSetLog[key]
        IN  w # None =>
              /\ (w.live /\ now - w.at <= CacheTtl) =>
                    cOut.ret = [sql |-> w.sql, result |-> w.result, cached |-> TRUE]
              /\ (now - w.at > CacheTtl) =>
                    (cOut.ret = None /\ ~HasKey(qcache, key))

\* a get found the entry of an earlier set expired, although it had served hits,
\* and removed it
C8_Witness ==
    /\ cOut.op = "get"
    /\ cOut.found
    /\ ~HasKey(qcache, _hash_key(cOut.q))
    /\ cSetLog[_hash_key(cOut.q)] # None
    /\ cSetLog[_hash_key(cOut.q)].hits > 0
    /\ now - cSetLog[_hash_key(cOut.q)].at > CacheTtl
    /\ cOut.ret = None

\* the step is a call of set
SetStep == cOut'.op = "set" /\ cSetLog'[_hash_key(cOut'.q)] # None
                            /\ cSetLog'[_hash_key(cOut'.q)].at = now

\* the entries of other keys that the step removed
RemovedOthers ==
    { i \in 1..Len(qcache) : /\ qcache[i].key # _hash_key(cOut'.q)
                             /\ ~HasKey(qcache', qcache[i].key) }

C27_AsStated ==
    [][ (SetStep /\ HasKey(qcache, _hash_key(cOut'.q))) => RemovedOthers = {} ]_vars

(***************************************************************************)
(* Claims about RateLimiter, checked under SpecR                           *)
(***************************************************************************)
\* the consume calls of user u that lie less than window before the time t
ConsumedWithin(u, window, t) ==
    Cardinality({i \in 1..Len(rHistory[u]) : t - rHistory[u][i] < window})

\* C10: with every admitted check followed by its consume, a check of a user is
\* admitted exactly when that user's consumes of the last 60 s number fewer than
\* the minute limit and those of the last 3600 s fewer than the hour limit (so the
\* first m calls inside one 60 s window are admitted and every later one denied);
\* the lists it leaves hold no expired timestamp; other users' calls play no part.
C10_AdmitIffBelowLimits ==
    rOut.op = "check" =>
        LET u == rOut.user IN
        /\ rOut.admit <=> /\ ConsumedWithin(u, MinuteWindow, rnow) < RatePerMinute
                          /\ ConsumedWithin(u, HourWindow, rnow) < RatePerHour
        /\ \A i \in 1..Len(rMinute[u]) : rnow - rMinute[u][i] < MinuteWindow
        /\ \A i \in 1..Len(rHour[u]) : rnow - rHour[u][i] < HourWindow

\* the call after the first m of one user inside one window is denied, while the
\* other user has been admitted in the same window
C10_Witness ==
    /\ rOut = [op |-> "check", user |-> "alice", admit |-> FALSE]
    /\ Len(rHistory["alice"]) = RatePerMinute
    /\ \A i \in 1..Len(rHistory["alice"]) : rnow - rHistory["alice"][i] < MinuteWindow
    /\ Len(rHistory["bob"]) > 0
    /\ \A i \in 1..Len(rHistory["bob"]) : rnow - rHistory["bob"][i] < MinuteWindow

\* the consumes of user u that lie in the window of the given length ending with
\* the i-th of them
InWindowEndingAt(u, window, i) ==
    {j \in 1..Len(rHistory[u]) :
        /\ rHistory[u][j] <= rHistory[u][i]
        /\ rHistory[u][i] - rHistory[u][j] < window}

\* C12: whatever the order in which the invoke calls of the users take their
\* turns, the consumes of one user inside any 60 s window never number more than
\* the minute limit, and those inside any 3600 s window never more than the hour
\* limit (a window holding the most consumes ends with one of them).
C12_NoWindowOverfilled ==
    \A u \in Users : \A i \in 1..Len(rHistory[u]) :
        /\ Cardinality(InWindowEndingAt(u, MinuteWindow, i)) <= RatePerMinute
        /\ Cardinality(InWindowEndingAt(u, HourWindow, i)) <= RatePerHour

\* calls of one user made at the same instant: as many as the minute limit have
\* consumed, the next one has just been denied, and the other user is between
\* its check and its consume
C12_Witness ==
    /\ Len(rHistory["alice"]) = RatePerMinute
    /\ \A i \in 1..Len(rHistory["alice"]) : rHistory["alice"][i] = rnow
    /\ rOut.op = "check" /\ rOut.user = "bob" /\ rOut.admit
    /\ rPending = "bob"
    /\ ~RateLimiter_check(rMinute, rHour, "alice", rnow).ret

(***************************************************************************)
(* Claims about validate applied twice, checked under SpecL                *)
(***************************************************************************)
\* C22: for a statement that validate accepts, validate applied to the sql it
\* returned returns that same sql and appends no LIMIT; and a statement that holds
\* a LIMIT clause is returned without an appended one.
C22_AsStated ==
    (lSecond # NoResult /\ lFirst.is_valid) =>
        /\ lSecond.sql = lFirst.sql
        /\ ~InList("Added LIMIT 1000 to prevent large result sets", lSecond.warnings)
        /\ HasLimit(_clean_sql(lSql))
              => ~InList("Added LIMIT 1000 to prevent large result sets",
                         lFirst.warnings)

\* C22, its core: for a statement that validate accepts with an appended cap,
\* validate applied to the sql it returned appends no second cap.
C22_CapAppendedTwice ==
    (lSecond # NoResult /\ lFirst.is_valid) =>
        ~ /\ InList("Added LIMIT 1000 to prevent large result sets", lFirst.warnings)
          /\ InList("Added LIMIT 1000 to prevent large result sets", lSecond.warnings)

(***************************************************************************)
(* Claims about IntentAgent.analyze, checked under SpecI                   *)
(***************************************************************************)
\* the question holds one of the words that select an intent other than
\* data_retrieval in the rule-based fallback
HoldsIntentKeyword(q) ==
    \E kws \in {report_kws, insight_kws, help_kws, policy_kws} : AnyIn(kws, Lower(q))

\* the AgentState after _analyze_intent has stored what analyze returned
AfterAnalyze ==
    IF iResult.raised
    THEN [IdleRun EXCEPT !.error = Str("Intent analysis failed: error")]
    ELSE [IdleRun EXCEPT !.intent = [intent_type |-> iResult.result.intent_type]]

\* C21: analyze returns an IntentResult whatever the backend does; when the
\* backend fails or its output is malformed, the result is the fallback's: an
\* intent_type of the enumeration, a confidence above 0, and data_retrieval when
\* the question holds no keyword; and the route after the intent node is never
\* the error outcome.
C21_FallbackTotal ==
    iResult # None =>
        /\ ~iResult.raised
        /\ iResult.result.intent_type \in IntentEnumeration
        /\ iBackend.kind \in {"failed", "malformed"} =>
              /\ iResult.result.confidence > 0
              /\ ~HoldsIntentKeyword(iQuestion)
                    => iResult.result.intent_type = "data_retrieval"
        /\ _route_after_intent(AfterAnalyze) # "handle_error"

\* the backend failed on a question that holds no keyword
C21_Witness ==
    /\ iResult # None
    /\ iBackend.kind = "failed"
    /\ iQuestion = <<"o","r","d","e","r","s"," ","q">>
    /\ iResult.result = IntentResultOf("data_retrieval", "select", 7)

(***************************************************************************)
(* Claims about AIGateway.invoke, checked under SpecG                      *)
(***************************************************************************)
\* the sleeps of a call before attempts on one backend
WaitsOn(inv, which) == SelectSeq(inv.waits, LAMBDA w : w.provider = which)

\* a backend is called at most max_retries times, and a sleep of
\* retry_delay_seconds * 2^attempt follows each failed attempt but the last
RetriesBounded(inv, which) ==
    /\ inv.calls[which] <= max_retries
    /\ LET ws == WaitsOn(inv, which) IN
         /\ Len(ws) = IF inv.failed[which] = max_retries THEN max_retries - 1
                      ELSE inv.failed[which]
         /\ \A j \in 1..Len(ws) : /\ ws[j].attempt = j - 1
                                  /\ ws[j].seconds = retry_delay_seconds * (2 ^ (j - 1))

\* the alternate backend is called only after max_retries failures of the primary
AlternateOnlyAfterPrimary(inv) ==
    inv.calls.fallback > 0 => inv.failed.primary = max_retries

\* an admitted call returns the dict of a failure only after max_retries
\* failures of the alternate backend
ErrorOnlyAfterAlternate(inv) ==
    (inv.pc = "done" /\ inv.result.kind = "error") =>
        inv.failed.fallback = max_retries

\* the parts of C24 about retries, sleeps and the order of the backends
C24_RetryBounds ==
    \A i \in Slots :
        /\ RetriesBounded(gInv[i], "primary")
        /\ RetriesBounded(gInv[i], "fallback")
        /\ AlternateOnlyAfterPrimary(gInv[i])
        /\ gInv[i].calls.primary + gInv[i].calls.fallback <= 2 * max_retries

\* C24: invoke calls the primary backend at most max_retries times, sleeping
\* retry_delay_seconds * 2^attempt between failed attempts, calls the alternate
\* backend only after the primary failed all its attempts, returns an error
\* result only after the alternate failed too, and makes a bounded number of
\* backend calls.
C24_AsStated ==
    /\ C24_RetryBounds
    /\ \A i \in Slots : ErrorOnlyAfterAlternate(gInv[i])

(***************************************************************************)
(* Claims about ResponseCache as AIGateway.invoke drives it, checked under *)
(* SpecH                                                                   *)
(***************************************************************************)
Occurrences(l, k) == Len(SelectSeq(l, LAMBDA x : x = k))

\* C28: every cached key occurs exactly once in _access_order, every key in
\* _access_order is cached, the entry the eviction loop deletes is the least
\* recently used one, and the cache never holds more than max_size entries.
C28_AsStated ==
    /\ \A k \in DOMAIN gCache : Occurrences(gOrder, k) = 1
    /\ \A j \in 1..Len(gOrder) : gOrder[j] \in DOMAIN gCache
    /\ gEvicted # None => gEvicted.keys = {gEvicted.lru}
    /\ Cardinality(DOMAIN gCache) <= ResponseMaxSize

\* the part of C28 that holds: every cached key is in _access_order, and the
\* cache never holds more than max_size entries
C28_SizeBounded ==
    /\ \A k \in DOMAIN gCache : Occurrences(gOrder, k) >= 1
    /\ Cardinality(DOMAIN gCache) <= ResponseMaxSize

C29_AsStated ==
    (fOut.op = "add_correction" /\ fOut.ret = ReturnedTrue) =>
        get_correction(fCorrections, fOut.question) = Str(fOut.sql)

\* the part of C29 that holds: the call found a record of the question and user
C29_WhenRecordExisted ==
    (fOut.op = "add_correction" /\ fOut.ret = ReturnedTrue /\ fOut.existed) =>
        get_correction(fCorrections, fOut.question) = Str(fOut.sql)

(***************************************************************************)
(* Claims about ConversationMemory, checked under SpecM                    *)
(***************************************************************************)
\* no element occurs twice in the list
NoDuplicates(l) == \A i, j \in 1..Len(l) : l[i] = l[j] => i = j

\* C18: after any sequence of add_message calls every session holds at most
\* max_turns turns, and they are the newest of the messages added to it, in the
\* order in which they were added (a turn added to a full session evicts the
\* oldest); the topics and the aggregations derived hold no element twice.
C18_BoundedOrderedDistinct ==
    \A sid \in DOMAIN memory :
        /\ Len(memory[sid].messages) <= MemMaxTurns
        /\ memory[sid].messages = LastN(mLog[sid], MemMaxTurns)
        /\ NoDuplicates(memory[sid].entities)
        /\ NoDuplicates(memory[sid].aggregations)

\* a full session has taken further turns, the same user text was added to it
\* twice, and two topics and two aggregations have been derived
C18_Witness ==
    \E sid \in DOMAIN memory :
        /\ Len(mLog[sid]) > MemMaxTurns
        /\ Len(memory[sid].messages) = MemMaxTurns
        /\ \E i, j \in 1..Len(mLog[sid]) :
              i < j /\ mLog[sid][i] = mLog[sid][j] /\ mLog[sid][i].role = "user"
        /\ Len(memory[sid].entities) = 2
        /\ Len(memory[sid].aggregations) = 2

(***************************************************************************)
(* Claims about the pipeline, checked under Spec                           *)
(***************************************************************************)
\* the calls whose response objects exist
Responded == {r \in Runs : runs[r].node = "responded"}

\* a failed response carries no data and a non-empty error
FailureShape(resp) == ~resp.success => (resp.data = None /\ Truthy(resp.error))

\* C1: whatever a call sends to db_connector.execute is the sql of a validation
\* that this call obtained before with is_valid = TRUE; and a call whose generator
\* gave 'DROP TABLE customers' sends nothing and answers success = FALSE.
C1_AsStated ==
    \A r \in Runs :
        /\ \A i \in 1..Len(runs[r].executed) : runs[r].executed[i].validated
        /\ (/\ r \in Responded
            /\ runs[r].sql_result # None
            /\ runs[r].sql_result.sql = DROP_CUSTOMERS)
              => (runs[r].executed = <<>> /\ ~runs[r].response.success)

\* C5: a response with success = FALSE has data None and a non-empty error, as
\* SupervisorAgent.process_query returns it, as MultiDatabaseSupervisor.process_query
\* returns it, and as the /query route returns it.
C5_AsStated ==
    \A r \in Responded :
        /\ runs[r].response # None => FailureShape(runs[r].response)
        /\ FailureShape(runs[r].wrapped)
        /\ FailureShape(runs[r].served)

\* C6: when two calls with the same normalized question, both inside one life
\* of a cache entry, have both succeeded and sent the database nothing but their
\* validated sql, then the database was called once in all, and one of the two
\* calls (the later one) generated and executed nothing.
C6_AsStated ==
    (/\ \A r \in Runs : runs[r].node = "done" /\ runs[r].succeeded
     /\ \A r \in Runs : \A i \in 1..Len(runs[r].executed) : runs[r].executed[i].validated
     /\ _normalize_question(runs[1].question) = _normalize_question(runs[2].question)
     /\ now = 0)
        => /\ Len(runs[1].executed) + Len(runs[2].executed) = 1
           /\ \E r \in Runs : ~runs[r].generated /\ runs[r].executed = <<>>

C9_WrittenOnlyAfterSuccess ==
    \A r \in Runs :
        /\ runs[r].wrote =>
              /\ runs[r].validated
              /\ \E i \in 1..Len(runs[r].executed) : runs[r].executed[i].validated
              /\ ~Truthy(runs[r].error)
        /\ (r \in Responded /\ ~runs[r].succeeded) => ~runs[r].wrote

\* one call validated, executed and wrote its entry, and another call, whose
\* execution failed, passed _record_feedback and wrote none
C9_Witness ==
    \E r, o \in Runs :
        /\ runs[r].wrote /\ runs[r].validated /\ runs[r].succeeded
        /\ runs[o].node = "responded"
        /\ ~runs[o].succeeded /\ ~runs[o].wrote
        /\ runs[o].executed # <<>>

\* the place of a node in the order of the workflow; the three generators share a
\* place, and so do record_feedback and handle_error, which both lead to END only
NodeRank(node) ==
    CASE node = "idle" -> 0
      [] node = "check_cache" -> 1
      [] node = "load_memory" -> 2
      [] node = "analyze_intent" -> 3
      [] node \in {"generate_sql", "generate_report", "generate_insight"} -> 4
      [] node = "validate_sql" -> 5
      [] node = "execute_query" -> 6
      [] node = "generate_visualization" -> 7
      [] node \in {"record_feedback", "handle_error"} -> 8
      [] node = "END" -> 9
      [] OTHER -> 10

\* the nodes of the graph, END included
GraphNodes == {"check_cache", "load_memory", "analyze_intent", "generate_sql",
               "generate_report", "generate_insight", "validate_sql",
               "execute_query", "generate_visualization", "record_feedback",
               "handle_error", "END"}

\* a step of run r inside the graph: it enters at check_cache, moves to a node later
\* in the order, and leaves the graph only from END
ForwardStep(r) ==
    runs'[r].node # runs[r].node =>
        /\ (runs[r].node = "idle" /\ runs'[r].node \in GraphNodes)
              => runs'[r].node = "check_cache"
        /\ (runs[r].node \in GraphNodes /\ runs'[r].node \in GraphNodes)
              => NodeRank(runs'[r].node) > NodeRank(runs[r].node)
        /\ (runs[r].node \in GraphNodes /\ runs'[r].node \notin GraphNodes)
              => runs[r].node = "END"

\* C13: every run enters the graph at check_cache, moves only forward in the order
\* check_cache, load_memory, analyze_intent, generate, validate_sql, execute_query,
\* generate_visualization, record_feedback (so it visits no node twice), and
\* leaves the graph through END only, whatever its collaborators answer.
C13_AsStated == [][\A r \in Runs : ForwardStep(r)]_vars

\* the part of C13 that does not depend on how a run leaves the graph
C13_EntryAndOrder ==
    [][\A r \in Runs :
          (runs'[r].node # runs[r].node /\ runs'[r].node \in GraphNodes) =>
              ForwardStep(r)]_vars

\* the generation node of run r has run and left no sql_result: it recorded an error
GenerationFailed(r) == runs[r].generated /\ runs[r].sql_result = None

\* C14: a run whose generation node recorded an error ends with success=false, and
\* in that run no query was validated and nothing was sent to db_connector.execute.
C14_AsStated ==
    \A r \in Responded :
        (runs[r].response # None /\ GenerationFailed(r)) =>
            /\ ~runs[r].response.success
            /\ ~runs[r].validated
            /\ runs[r].executed = <<>>

\* run r is the only call made so far: what it found were the empty memory and
\* the empty cache of a new process
FirstAlone(r) == \A o \in Runs \ {r} : runs[o].node = "idle"

\* C15: a run that ends with success=false leaves the turns and the context of the
\* session and the cache as they were before it; here, for the first call of a
\* process, empty.
C15_AsStated ==
    \A r \in Responded :
        (runs[r].response # None /\ ~runs[r].response.success /\ FirstAlone(r)) =>
            /\ memory = <<>>
            /\ qcache = <<>>

\* C16: when record_query raises, process_query still returns a response, with the
\* success that the nodes before record_feedback determined and, after a
\* successful execution, the rows.
C16_AsStated ==
    \A r \in Runs :
        runs[r].node = "raised" =>
            /\ runs[r].response # None
            /\ runs[r].response.success = ~Truthy(runs[r].error)
            /\ runs[r].response.success => runs[r].response.data = runs[r].query_result

\* C19: a run sends at most one text to db_connector.execute, whichever node or
\* agent makes the call.
C19_AsStated == \A r \in Runs : Len(runs[r].executed) <= 1

\* C20: every call of process_query that has answered appended exactly one
\* FeedbackRecord (stated for the first call of a process, whose records are all
\* there are), and no step of a run changes a record that exists.
C20_AsStated ==
    /\ [](\A r \in Responded :
            (runs[r].response # None /\ FirstAlone(r)) => Len(feedback) = 1)
    /\ [][\A i \in 1..Len(feedback) :
             Len(feedback') >= i /\ feedback'[i] = feedback[i]]_vars

(***************************************************************************)
(* Claims about repeated requests of one user, checked under SpecQ         *)
(***************************************************************************)
\* C11: with the minute limit m, while no time passes, the request after the m-th
\* of the user is answered with success=false and the rate limiter's error, and
\* neither the generation contract nor validation nor execution is invoked for it.
C11_AsStated ==
    \A r \in Runs :
        (calls > RatePerMinute /\ now = 0 /\ runs[r].node \notin {"idle", "done"}) =>
            /\ ~runs[r].generated
            /\ ~runs[r].validated
            /\ runs[r].executed = <<>>
            /\ runs[r].response # None =>
                  /\ ~runs[r].response.success
                  /\ runs[r].response.error = RATE_LIMIT_ERROR

\* C17: once "Show revenue by month" is a turn of the session, the context
\* rendered for the next request lists the topic revenue; and for a request whose
\* own text does not mention a topic that its conversation context lists, the
\* input of the intent classification carries the context with that topic.
C17_AsStated ==
    /\ \A sid \in DOMAIN memory :
          InList([role |-> "user", content |-> [text |-> SHOW_REVENUE]],
                 memory[sid].messages)
              => InList("revenue", memory[sid].entities)
    /\ \A r \in Runs :
          ( /\ runs[r].intent_input # None
            /\ InList("revenue", runs[r].conversation_context.entities)
            /\ ~Contains(Lower(runs[r].question), <<"r","e","v","e","n","u","e">>) ) =>
              /\ runs[r].intent_input.context # None
              /\ InList("revenue", runs[r].intent_input.context.entities)

====
